---- MODULE Spec2Model ----
(***************************************************************************)
(* Seat-lock service of CineVerse (app/services/lock_service.py) over a    *)
(* Redis-like key-value store with per-key expiry.                         *)
(*                                                                         *)
(* Time is counted in milliseconds and advances in steps of FreshMs,       *)
(* the only time constant the code compares TTLs against.                  *)
(* A store round trip (one EVAL, one pipeline.execute(), one GET) is one   *)
(* atomic step; a handler that needs several round trips takes several     *)
(* steps and other callers and expiry may run in between.                  *)
(*                                                                         *)
(* The seat-map projector of app/routers/public_routes.py reads the        *)
(* booking records and the lock store and is checked under ProjSpec.       *)
(*                                                                         *)
(* The connection hub (ConnectionManager and websocket_endpoint of         *)
(* public_routes.py, the shutdown part of lifespan in main.py) is checked  *)
(* under HubSpec; every await of a handler ends one atomic step.  The      *)
(* route handlers that schedule broadcasts run under LiveSpec, which       *)
(* states the fairness of the event loop.                                  *)
(***************************************************************************)
EXTENDS Integers, FiniteSets, Sequences, TLC

\* ---------------------------------------------------------------- bounds
NumSeats == 2
MaxTtlTicks == 3
MaxInFlight == 1

\* ------------------------------------------------------- program constant
\* MULTI_LOCK_LUA: "ttl >= (ttl_ms - 1000)"
FreshMs == 1000

Owners == {"X", "Y"}
Showtimes == {42, 7}
Seats == 101..(100 + NumSeats)
TTLs == {FreshMs, MaxTtlTicks * FreshMs}
None == "none"

\* _key_for without the showtime in the key: "seat_lock:<seat_id>"
_key_for_SeatOnly(showtime_id, seat_id) == <<42, seat_id>>

\* _key_for(showtime_id, seat_id): the key string is an injective image of
\* the pair, and ":(%d+)$" / split(':')[-1] read the seat id back from it.
_key_for(showtime_id, seat_id) == <<showtime_id, seat_id>>
Keys == {_key_for(st, s) : st \in Showtimes, s \in Seats}
KeysOf(st, S) == {_key_for(st, s) : s \in S}
\* the seats on sale per showtime: either one showtime sells the whole hall,
\* or every showtime sells the first seat
Layouts == {[st \in Showtimes |-> IF st = 42 THEN Seats ELSE {}],
            [st \in Showtimes |-> {101}]}
SeatOf(key) == key[2]

\* _key_pattern(showtime_id): the keys "seat_lock:<showtime_id>:*" matches
_key_pattern(showtime_id) == {k \in Keys : k[1] = showtime_id}

NoLock == [owner |-> None, ttl |-> 0]
\* the TTL of a key written without PX: it has no expiry (PTTL answers -1)
NoExpiry == -1

VARIABLES
    store,      \* the lock store: key -> [owner, ttl], ttl = remaining ms
    call,       \* per owner: the handler in flight between two round trips
    ev,         \* what the step just taken did: a returned call, a tick, or nothing
    layout,     \* showtime -> seats on sale (fixed after Init)
    told        \* history: the keys whose entry an acquire reported to its
                \* owner as locked with success:true

VARIABLES
    bookings,   \* persisted booking rows: <<show_id, entry of seat_numbers>>
    proj,       \* the seat-map request in flight between two round trips
    view        \* the seat map the projector just returned

VARIABLES
    active_connections, \* manager.active_connections, in insertion order:
                        \* a sequence of [id |-> showtime, conns |-> list]
    ws,         \* per subscriber: its endpoint handler and its socket
    tasks,      \* the broadcast tasks created and not yet started
    bcast,      \* the broadcast_to_showtime call in flight
    shut        \* the shutdown part of lifespan

VARIABLES
    pay,        \* the verify_payment request in flight, and its last response
    route,      \* the lock route request in flight, and its last response
    shown       \* per subscriber: the state of every seat according to the
                \* frames its socket has taken

lockvars == <<store, call, ev, told, layout>>
projvars == <<bookings, proj, view>>
hubvars == <<active_connections, ws, tasks, bcast, shut>>
reqvars == <<pay, route, shown>>
\* the variables the lock service does not touch
others == <<projvars, hubvars, reqvars>>
vars == <<store, call, ev, told, layout, bookings, proj, view,
          active_connections, ws, tasks, bcast, shut, pay, route, shown>>
SeatsOf(st) == layout[st]

\* ------------------------------------------------------ store primitives
GET(db, key) == db[key].owner
PTTL(db, key) == IF db[key].owner = None THEN -2 ELSE db[key].ttl
EXISTS(db, key) == db[key].owner # None
SetNxPx(db, key, owner, ttl_ms) ==
    IF db[key].owner = None
    THEN [db EXCEPT ![key] = [owner |-> owner, ttl |-> ttl_ms]]
    ELSE db
\* SET key owner NX, the command pipe.set(key, owner, px=None, nx=True) sends
SetNx(db, key, owner) == SetNxPx(db, key, owner, NoExpiry)
DEL(db, K) == [k \in Keys |-> IF k \in K THEN NoLock ELSE db[k]]
PEXPIRE(db, K, ttl_ms) ==
    [k \in Keys |-> IF k \in K /\ EXISTS(db, k)
                    THEN [owner |-> db[k].owner, ttl |-> ttl_ms]
                    ELSE db[k]]

\* Redis expiry: after ms milliseconds every key whose TTL ran out is gone
Expire(db, ms) ==
    [k \in Keys |-> IF db[k].owner # None /\ db[k].ttl = NoExpiry
                    THEN db[k]
                    ELSE IF db[k].owner # None /\ db[k].ttl > ms
                    THEN [owner |-> db[k].owner, ttl |-> db[k].ttl - ms]
                    ELSE NoLock]

\* --------------------------------------------------------- MULTI_LOCK_LUA
\* the script without its same-owner branch: every held seat is a conflict
SameOwner_NeverSame(current_owner, owner) == FALSE

\* "if current_owner == owner": the seat counts as already locked by the caller
SameOwner(current_owner, owner) == current_owner = owner

\* rollback test of the script: "ttl > 0 and ttl >= (ttl_ms - 1000)"
LooksNew(ttl, ttl_ms) == ttl > 0 /\ ttl >= ttl_ms - FreshMs

\* The keys of one call are distinct, so the two loops of the script act on
\* each key independently of the order of KEYS.
MULTI_LOCK_LUA(db, K, owner, ttl_ms) ==
    LET held == {k \in K : GET(db, k) # None}
        mine == {k \in held : SameOwner(GET(db, k), owner)}
        conflicts == {<<SeatOf(k), GET(db, k)>> : k \in held \ mine}
        free == K \ held
        db1 == [k \in Keys |-> IF k \in free
                               THEN [owner |-> owner, ttl |-> ttl_ms]
                               ELSE db[k]]
        locked_seats == {SeatOf(k) : k \in mine \cup free}
        rollback == {k \in K : GET(db1, k) = owner
                                /\ LooksNew(PTTL(db1, k), ttl_ms)}
    IN  IF conflicts # {}
        THEN [db |-> DEL(db1, rollback), ok |-> 0,
              locked |-> {}, conflicts |-> conflicts]
        ELSE [db |-> db1, ok |-> 1,
              locked |-> locked_seats, conflicts |-> {}]

\* ------------------------------------------- EXTEND_LUA_SCRIPT / RELEASE_LUA_SCRIPT
\* "if current_owner == expected_owner"
OwnedBy(db, K, expected_owner) == {k \in K : GET(db, k) = expected_owner}

EXTEND_LUA_SCRIPT(db, K, expected_owner, ttl_ms) ==
    [db |-> PEXPIRE(db, OwnedBy(db, K, expected_owner), ttl_ms),
     extended |-> Cardinality(OwnedBy(db, K, expected_owner))]

RELEASE_LUA_SCRIPT(db, K, expected_owner) ==
    [db |-> DEL(db, OwnedBy(db, K, expected_owner)),
     released |-> Cardinality(OwnedBy(db, K, expected_owner))]

\* ------------------------------------------------------------ bookkeeping
\* a handler between two round trips: its arguments and its local variables
Idle == [op |-> "idle", pc |-> "idle", st |-> 0, seats |-> {}, ttl |-> 0,
         locked |-> {}, pend |-> {}, conflicts |-> {},
         mine |-> {}, free |-> {}, wrote |-> {}, touched |-> {}]

\* op: which call returned; its arguments; the returned fields; and, about
\* the call:
\*   free    requested seats unlocked when the call first reached the store
\*   mine    requested seats the caller held at every read of the call
\*   changed keys whose entry an acquire changed
\*   touched <<key, owner of the entry>> for every entry a DEL or PEXPIRE
\*           of the call hit
NoEv == [op |-> "none", owner |-> None, st |-> 0, seats |-> {},
         client |-> "ok", success |-> FALSE, raised |-> FALSE,
         locked |-> {}, conflicts |-> {},
         extended |-> {}, released |-> {}, not_owned |-> {},
         mine |-> {}, free |-> {}, changed |-> {}, touched |-> {}]

TickEv == [NoEv EXCEPT !.op = "tick"]

\* seats of a batch the store db holds for owner o / holds for nobody
MineIn(db, st, S, o) == {s \in S : GET(db, _key_for(st, s)) = o}
FreeIn(db, st, S) == {s \in S : GET(db, _key_for(st, s)) = None}
\* keys whose entry differs between two stores
Diff(db1, db2) == {k \in Keys : db1[k] # db2[k]}
\* the entries of K that exist, with their owners
Hit(db, K) == {<<k, GET(db, k)>> : k \in {h \in K : EXISTS(db, h)}}

\* the return value of acquire_seat_locks
AcquireRet(o, st, S, client, success, locked, conflicts, mine, free, changed) ==
    [NoEv EXCEPT !.op = "acquire", !.owner = o, !.st = st, !.seats = S,
                 !.client = client, !.success = success,
                 !.locked = locked, !.conflicts = conflicts,
                 !.mine = mine, !.free = free, !.changed = changed]

\* the return value of extend_seat_locks
ExtendRet(o, st, S, client, extended, not_owned, touched) ==
    [NoEv EXCEPT !.op = "extend", !.owner = o, !.st = st, !.seats = S,
                 !.client = client, !.extended = extended,
                 !.not_owned = not_owned, !.touched = touched]

\* the return value of release_seat_locks
ReleaseRet(o, st, S, client, released, not_owned, mine, touched) ==
    [NoEv EXCEPT !.op = "release", !.owner = o, !.st = st, !.seats = S,
                 !.client = client, !.released = released,
                 !.not_owned = not_owned, !.mine = mine, !.touched = touched]

\* an entry that is gone is no longer held by anyone
StillTold(T, db) == {k \in T : EXISTS(db, k)}
\* a success:true response tells its owner the seats of locked it holds
Tell(T, db, o, st, locked) ==
    StillTold(T, db) \cup {k \in KeysOf(st, locked) : GET(db, k) = o}

\* ------------------------------------------------- seat-map projector data
\* one entry of Booking.seat_numbers: a seat id written in digits, or a seat
\* label such as "A1" (row, then number)
IdToken(n) == [kind |-> "id", row |-> "", n |-> n]
LabelToken(row, num) == [kind |-> "label", row |-> row, n |-> num]

\* _generate_seat_layout_template: the seats of the showtime, keyed by
\* (row, num); here the hall has the one row "A"
RowOf(seat_id) == "A"
NumOf(seat_id) == seat_id - 100
seat_map(showtime_id) ==
    [key \in {<<RowOf(s), NumOf(s)>> : s \in SeatsOf(showtime_id)} |->
        CHOOSE s \in SeatsOf(showtime_id) : <<RowOf(s), NumOf(s)>> = key]

\* the booking tables the database may hold
BookingSets ==
    {{},
     {<<42, IdToken(101)>>},
     {<<42, LabelToken("A", 2)>>, <<7, IdToken(101)>>},
     {<<42, LabelToken("Z", 9)>>, <<7, LabelToken("A", 1)>>}}

\* the loop over bookings without its "except ValueError" branch: a row
\* that names a seat by its label books nothing
booked_seat_ids_IdsOnly(rows, showtime_id) ==
    LET tokens == {b[2] : b \in {r \in rows : r[1] = showtime_id}}
    IN  {t.n : t \in {u \in tokens : u.kind = "id"}}

\* the loop over bookings, the rows the query of the request returned:
\* int(seat_num) adds the id; on ValueError the label is looked up in
\* seat_map and dropped when no seat carries it
booked_seat_ids(rows, showtime_id) ==
    LET tokens == {b[2] : b \in {r \in rows : r[1] = showtime_id}}
    IN  {t.n : t \in {u \in tokens : u.kind = "id"}}
        \cup {seat_map(showtime_id)[<<t.row, t.n>>] :
                 t \in {u \in tokens : u.kind = "label" /\
                          <<u.row, u.n>> \in DOMAIN seat_map(showtime_id)}}

\* update_seat_status with the two tests in the other order: a lock outranks
\* a booking
update_seat_status_LockFirst(seat_id, booked, locked_seat_ids, locked_seat_owners) ==
    IF seat_id \in locked_seat_ids
    THEN [status |-> "locked", locked_by |-> locked_seat_owners[seat_id]]
    ELSE IF seat_id \in booked
    THEN [status |-> "booked", locked_by |-> None]
    ELSE [status |-> "available", locked_by |-> None]

\* update_seat_status, with locked_by = None for a seat dict without the key
update_seat_status(seat_id, booked, locked_seat_ids, locked_seat_owners) ==
    IF seat_id \in booked
    THEN [status |-> "booked", locked_by |-> None]
    ELSE IF seat_id \in locked_seat_ids
    THEN [status |-> "locked", locked_by |-> locked_seat_owners[seat_id]]
    ELSE [status |-> "available", locked_by |-> None]

NoValues == [s \in Seats |-> None]
\* the seat-map request between two round trips: rows is what its booking
\* query returned, values what MGET returned
ProjIdle == [pc |-> "idle", st |-> 0, values |-> NoValues, rows |-> {}]

\* the returned seat map, and about the request that built it:
\*   mode  how the lock check went ("ok", or which round trip failed how)
\*   seen  the owners MGET read
NoView == [st |-> 0, mode |-> "none", seen |-> NoValues,
           response |-> [showtime_id |-> 0, sections |-> <<>>]]

\* return {"showtime_id": showtime_id, "sections": sections}
SeatMap(showtime_id, mode, values, locked_seat_ids, rows) ==
    [st |-> showtime_id, mode |-> mode, seen |-> values,
     response |->
        [showtime_id |-> showtime_id,
         sections |-> [s \in SeatsOf(showtime_id) |->
                          update_seat_status(s,
                              booked_seat_ids(rows, showtime_id),
                              locked_seat_ids, values)]]]

\* ------------------------------------------------------- connection hub
NumSubscribers == 2
Subscribers == 1 .. NumSubscribers
\* the showtime ids a client may ask for: the rows of the showtime table
\* and one id the table does not hold
Requested == Showtimes \cup {99}

\* db.query(models.Showtime).filter(id == showtime_id_int).first(), with
\* every id taken for a row of the table
ShowtimeExists_Any(showtime_id) == TRUE
\* db.query(models.Showtime).filter(id == showtime_id_int).first()
ShowtimeExists(showtime_id) == showtime_id \in Showtimes

\* the close codes the server sends
GoingAway == 1001
PolicyViolation == 1008
InternalError == 1011

\* a subscriber: pc is the position of its websocket_endpoint call ("out":
\* not called yet), st the showtime id of its URL, up whether its transport
\* still takes frames, mute whether its client never sends anything, pings
\* the pings sent since the client's last message (counted 1, 2, 1, 2, ...),
\* code the close code the server sent it (0: none), left how the handler
\* returned: "unaccepted", "db_error", "not_found", or what the disconnect
\* of the finally block found, "removed" or "absent"
NoSocket == [pc |-> "out", st |-> 0, up |-> FALSE, mute |-> FALSE,
             pings |-> 0, code |-> 0, left |-> ""]
\* send_json / close on this socket does not raise
Sendable(sock) ==
    sock.up /\ sock.code = 0 /\ sock.pc \in {"accepted", "hello", "open"}
\* the handler has returned: the framework closes the socket
Returned(sock, left) ==
    [NoSocket EXCEPT !.pc = "done", !.st = sock.st, !.code = sock.code,
                     !.left = left]

\* the keys of the registry, the list of a key, the elements of a list
Ids(reg) == {reg[i].id : i \in DOMAIN reg}
Conns(reg, showtime_id) ==
    IF showtime_id \in Ids(reg)
    THEN reg[CHOOSE i \in DOMAIN reg : reg[i].id = showtime_id].conns
    ELSE <<>>
Members(list) == {list[i] : i \in DOMAIN list}
Registered(reg) == UNION {Members(reg[i].conns) : i \in DOMAIN reg}
SetConns(reg, showtime_id, list) ==
    [i \in DOMAIN reg |-> IF reg[i].id = showtime_id
                          THEN [id |-> showtime_id, conns |-> list]
                          ELSE reg[i]]
\* the registration with "= [websocket]" in place of ".append(websocket)"
register_Overwrites(reg, websocket, showtime_id) ==
    IF showtime_id \in Ids(reg)
    THEN SetConns(reg, showtime_id, <<websocket>>)
    ELSE Append(reg, [id |-> showtime_id, conns |-> <<websocket>>])
\* "if showtime_id_int not in manager.active_connections: ... = []" and
\* ".append(websocket)"
register(reg, websocket, showtime_id) ==
    IF showtime_id \in Ids(reg)
    THEN SetConns(reg, showtime_id, Append(Conns(reg, showtime_id), websocket))
    ELSE Append(reg, [id |-> showtime_id, conns |-> <<websocket>>])
\* list.remove(x) for an x the list holds: the first occurrence goes
Remove(list, x) ==
    LET i == CHOOSE n \in DOMAIN list :
                 list[n] = x /\ \A m \in 1 .. n - 1 : list[m] # x
    IN  SubSeq(list, 1, i - 1) \o SubSeq(list, i + 1, Len(list))

\* ConnectionManager.disconnect without "del self.active_connections[...]"
disconnect_KeepsEmptyList(reg, websocket, showtime_id) ==
    IF showtime_id \notin Ids(reg) THEN reg
    ELSE LET old == Conns(reg, showtime_id)
         IN  SetConns(reg, showtime_id,
                      IF websocket \in Members(old)
                      THEN Remove(old, websocket) ELSE old)
\* ConnectionManager.disconnect: ValueError of remove() is passed over, an
\* emptied list is deleted with its key
disconnect(reg, websocket, showtime_id) ==
    IF showtime_id \notin Ids(reg) THEN reg
    ELSE LET old == Conns(reg, showtime_id)
             list == IF websocket \in Members(old)
                     THEN Remove(old, websocket) ELSE old
         IN  IF list = <<>>
             THEN SelectSeq(reg, LAMBDA e : e.id # showtime_id)
             ELSE SetConns(reg, showtime_id, list)

\* a broadcast task: the kind of its message and its showtime
Kinds == {"seat_locked", "seat_released", "seat_update"}
\* what a message says about seats: seat -> status and locked_by.  A task
\* whose message is not followed carries NoMsg
NoMsg == [s \in {} |-> None]
Task(kind, showtime_id) == [kind |-> kind, st |-> showtime_id, msg |-> NoMsg]
\* the 'seat' of the message of broadcast_seat_locked
seat_locked(seat_id, owner) ==
    [s \in {seat_id} |-> [status |-> "locked", locked_by |-> owner]]
\* the 'seat' of the message of broadcast_seat_released
seat_released(seat_id) ==
    [s \in {seat_id} |-> [status |-> "available", locked_by |-> None]]
\* the seats a subscriber holds after a frame: those the frame names are
\* replaced, the others kept
Received(last, msg) ==
    [s \in Seats |-> IF s \in DOMAIN msg THEN msg[s] ELSE last[s]]
\* every subscriber starts from the seat map of an empty hall
NothingShown ==
    [w \in Subscribers |->
        [s \in Seats |-> [status |-> "available", locked_by |-> None]]]
\* broadcast_to_showtime between its awaits: conns is the snapshot, results
\* what each _safe_send returned ("-": not yet, None, or "exc")
NoBcast == [pc |-> "idle", kind |-> "", st |-> 0, msg |-> NoMsg,
            conns |-> <<>>, results |-> [w \in Subscribers |-> "-"]]
\* "if isinstance(res, Exception) or res is not None", taken for true
ShouldPrune_Everyone(res) == TRUE
\* "if isinstance(res, Exception) or res is not None"
ShouldPrune(res) == res # None
\* the prune loop over zip(conns, results)
RECURSIVE Prune(_, _, _, _)
Prune(reg, conns, results, showtime_id) ==
    IF conns = <<>> THEN reg
    ELSE Prune(IF ShouldPrune(results[Head(conns)])
               THEN disconnect(reg, Head(conns), showtime_id) ELSE reg,
               Tail(conns), results, showtime_id)

\* the shutdown loop of lifespan: items are the showtimes of the snapshot
\* still to visit, cur the rest of list(connections) of the showtime being
\* visited, stale the showtimes whose list was emptied and deleted since the
\* snapshot, start the subscribers registered at the snapshot, tried those
\* close() was called on
NoShut == [pc |-> "up", items |-> <<>>, cur |-> <<>>, stale |-> {},
           start |-> {}, tried |-> {}]
\* "except Exception: pass", with the loop left at the first exception
Remaining_StopAtError(cur, raised) == IF raised THEN <<>> ELSE Tail(cur)
\* "except Exception: pass": the loop goes on whether close() raised or not
Remaining(cur, raised) == Tail(cur)
\* the next showtime of the snapshot whose list still holds a subscriber
RECURSIVE NextList(_, _, _)
NextList(items, reg, stale) ==
    IF items = <<>> THEN [items |-> <<>>, cur |-> <<>>]
    ELSE LET connections == IF Head(items) \in stale THEN <<>>
                            ELSE Conns(reg, Head(items))
         IN  IF connections # <<>>
             THEN [items |-> Tail(items), cur |-> connections]
             ELSE NextList(Tail(items), reg, stale)
\* the shutdown loop after the registry became reg
ShutAfter(reg) ==
    IF shut.pc = "closing"
    THEN [shut EXCEPT !.stale = @ \cup (Ids(active_connections) \ Ids(reg))]
    ELSE shut
\* the process still runs
Running == shut.pc # "down"

\* ------------------------------------------------------ verify_payment data
\* the request in flight (pc), its order (st, seats), its owner token, what
\* validate_locks_for_booking answered, whether a PAID_ORPHANED Payment row
\* with the order's order_id was committed, the keys
\* release_seat_locks_simple queued for deletion, and the status of the last
\* response
NoPay == [pc |-> "idle", st |-> 0, seats |-> {}, owner |-> None,
          valid |-> TRUE, orphan |-> FALSE, del |-> {}, status |-> 0]

\* owner strings a client can send besides the plain tokens of Owners: a
\* token with a leading blank, the text of a JSON object with an "owner"
\* member, and the text of a JSON list
PaddedX == " X"
JsonX == "{\"owner\": \"X\"}"
ListX == "[\"X\"]"
OwnerStrings == Owners \cup {PaddedX, JsonX, ListX}

\* str.strip()
strip(raw_value) == IF raw_value = PaddedX THEN "X" ELSE raw_value
\* s.startswith("{") or s.startswith("[")
StartsJson(s) == s \in {JsonX, ListX}
\* json.loads(s) of the texts above: a dict or a list
IsDict(s) == s = JsonX
\* parsed.get("owner") or parsed.get("owner_token") or parsed.get("locked_by")
OwnerMember(s) == IF s = JsonX THEN "X" ELSE None

\* _extract_owner_from_redis_value: None for no value; the value is
\* stripped, and a text that starts like JSON is parsed: the owner member of
\* a dict, None for anything else; every other string is the owner itself
_extract_owner_from_redis_value(raw_value) ==
    IF raw_value = None THEN None
    ELSE LET s == strip(raw_value)
         IN  IF StartsJson(s)
             THEN IF IsDict(s) THEN OwnerMember(s) ELSE None
             ELSE s

\* validate_locks_for_booking with an owner: a seat without a lock, or whose
\* extracted owner is None or differs from the owner, is invalid; a timeout
\* or an error of MGET answers {"valid": True, "warning": "locks_unavailable"}
validate_locks_for_booking(db, showtime_id, seat_ids, owner, outcome) ==
    IF seat_ids = {} THEN FALSE
    ELSE IF outcome # "ok" THEN TRUE
    ELSE \A s \in seat_ids :
            LET raw == GET(db, _key_for(showtime_id, s))
                current_owner == _extract_owner_from_redis_value(raw)
            IN  raw # None /\ current_owner # None /\ current_owner = owner

\* Booking.seat_numbers = ",".join(map(str, seat_ids_list)): one row entry
\* per seat id, written in digits
BookingRows(showtime_id, seat_ids) ==
    {<<showtime_id, IdToken(s)>> : s \in seat_ids}

\* the booking table after db.add / db.flush / db.commit, with the rows of a
\* failed transaction left behind
Persisted_NoRollback(rows, new, committed) == rows \cup new

\* the booking table after db.add / db.flush / db.commit: the rows are there
\* once commit returned, and "db.rollback()" drops them when anything raised
Persisted(rows, new, committed) == IF committed THEN rows \cup new ELSE rows

\* ------------------------------------------------------- lock route data
\* the body of a response: the fields of the four response models
NoResp == [success |-> FALSE, locked |-> {}, conflicts |-> {},
           extended |-> {}, released |-> {}, not_owned |-> {},
           seats |-> <<>>]

\* a request to redis-lock-seats, redis-extend-locks, redis-unlock-seats or
\* redis-inspect-locks: pc is the position of its handler ("body": the
\* dependencies are solved), seat_ids the list it names, pings the PINGs
\* get_redis sent for it, calls the round trips of the lock service, pend
\* what the service keeps between two round trips; status and resp are the
\* last response
NoRoute == [pc |-> "idle", op |-> "none", st |-> 0, seat_ids |-> <<>>,
            owner |-> None, pings |-> 0, calls |-> 0, pend |-> {},
            status |-> 0, resp |-> NoResp]

\* the seat lists a request can carry ("seat_ids": [] included)
SeatLists == {<<>>, <<101>>, <<102, 101>>}

\* inspect_locks without the entries of unlocked seats
inspect_locks_LockedOnly(db, showtime_id, seat_ids, outcome) ==
    IF outcome # "ok" THEN <<>>
    ELSE SelectSeq([i \in DOMAIN seat_ids |->
                       [seatId |-> seat_ids[i],
                        owner |-> GET(db, _key_for(showtime_id, seat_ids[i])),
                        ttl_ms |-> PTTL(db, _key_for(showtime_id,
                                                      seat_ids[i]))]],
                   LAMBDA e : e.owner # None)

\* inspect_locks: a pipeline of GET and PTTL per seat, one entry per seat in
\* the order of seat_ids, ttl_ms None unless PTTL is positive; [] when the
\* pipeline raises
inspect_locks(db, showtime_id, seat_ids, outcome) ==
    IF outcome # "ok" THEN <<>>
    ELSE [i \in DOMAIN seat_ids |->
             LET k == _key_for(showtime_id, seat_ids[i])
             IN  [seatId |-> seat_ids[i],
                  owner |-> GET(db, k),
                  ttl_ms |-> IF PTTL(db, k) > 0 THEN PTTL(db, k) ELSE None]]

Init ==
    /\ store = [k \in Keys |-> NoLock]
    /\ call = [o \in Owners |-> Idle]
    /\ ev = NoEv
    /\ told = {}
    /\ layout \in Layouts
    /\ bookings = {}
    /\ proj = ProjIdle
    /\ view = NoView
    /\ active_connections = <<>>
    /\ ws = [w \in Subscribers |-> NoSocket]
    /\ tasks = {}
    /\ bcast = NoBcast
    /\ shut = NoShut
    /\ pay = NoPay
    /\ route = NoRoute
    /\ shown = NothingShown

\* a handler starts while at most MaxInFlight - 1 others are between round trips
MayStart(o) ==
    /\ call[o].op = "idle"
    /\ Cardinality({p \in Owners : call[p].op # "idle"}) < MaxInFlight

\* ------------------------------------------------------ acquire_seat_locks
\* redis is None: "treating all seats as lockable"
AcquireNoClient(o, st, S, t) ==
    /\ UNCHANGED <<layout, others>>
    /\ call[o].op = "idle"
    /\ ev' = AcquireRet(o, st, S, "none", TRUE, S, {},
                        MineIn(store, st, S, o), FreeIn(store, st, S), {})
    /\ UNCHANGED <<store, call, told>>

\* redis.eval(MULTI_LOCK_LUA, ...) answers within the timeout
AcquireScript(o, st, S, t) ==
    /\ UNCHANGED <<layout, others>>
    /\ call[o].op = "idle"
    /\ LET r == MULTI_LOCK_LUA(store, KeysOf(st, S), o, t)
       IN  /\ store' = r.db
           /\ ev' = AcquireRet(o, st, S, "ok", r.ok = 1, r.locked,
                               r.conflicts, MineIn(store, st, S, o),
                               FreeIn(store, st, S), Diff(store, r.db))
           /\ told' = IF r.ok = 1 THEN Tell(told, r.db, o, st, r.locked)
                      ELSE StillTold(told, r.db)
    /\ UNCHANGED call

\* redis.eval raises or times out: the script has run on the server (ran) or
\* has not, and the handler goes on in _acquire_seat_locks_fallback
AcquireEvalFails(o, st, S, t, ran) ==
    /\ UNCHANGED <<layout, others>>
    /\ MayStart(o)
    /\ LET db == IF ran THEN MULTI_LOCK_LUA(store, KeysOf(st, S), o, t).db
                 ELSE store
       IN  /\ store' = db
           /\ told' = StillTold(told, db)
           /\ call' = [call EXCEPT ![o] =
                  [Idle EXCEPT !.op = "acquire",
                               !.pc = IF ran THEN "get2" ELSE "get",
                               !.st = st, !.seats = S, !.ttl = t,
                               !.free = IF ran THEN FreeIn(store, st, S) ELSE {},
                               !.mine = IF ran THEN MineIn(store, st, S, o) ELSE {},
                               !.wrote = Diff(store, db)]]
    /\ ev' = NoEv

\* first pipeline of the fallback: GET every key, sort the seats into
\* conflicts (other owner) and locked (same owner)
FallbackGet(o) ==
    /\ UNCHANGED <<layout, others>>
    /\ call[o].op = "acquire" /\ call[o].pc \in {"get", "get2"}
    /\ LET c == call[o]
           K == KeysOf(c.st, c.seats)
           held == {k \in K : GET(store, k) # None}
           conflicts == {<<SeatOf(k), GET(store, k)>> :
                            k \in {h \in held : GET(store, h) # o}}
           locked == {SeatOf(k) : k \in {h \in held : GET(store, h) = o}}
           seats_to_lock == c.seats \ locked
           free == IF c.pc = "get" THEN FreeIn(store, c.st, c.seats) ELSE c.free
           mine == IF c.pc = "get" THEN locked ELSE c.mine \cap locked
       IN  IF conflicts # {}
           THEN /\ ev' = AcquireRet(o, c.st, c.seats, "ok", FALSE, {},
                                    conflicts, mine, free, c.wrote)
                /\ call' = [call EXCEPT ![o] = Idle]
                /\ UNCHANGED told
           ELSE IF seats_to_lock = {}
           THEN /\ ev' = AcquireRet(o, c.st, c.seats, "ok", TRUE, locked,
                                    {}, mine, free, c.wrote)
                /\ call' = [call EXCEPT ![o] = Idle]
                /\ told' = Tell(told, store, o, c.st, locked)
           ELSE /\ call' = [call EXCEPT ![o] = [c EXCEPT !.pc = "set",
                                !.locked = locked, !.pend = seats_to_lock,
                                !.mine = mine, !.free = free]]
                /\ ev' = NoEv
                /\ UNCHANGED told
    /\ UNCHANGED store

\* the return statement of the fallback, db being the store it leaves
FallbackReturn(o, c, db, locked, conflicts, wrote) ==
    /\ ev' = AcquireRet(o, c.st, c.seats, "ok", conflicts = {}, locked,
                        conflicts, c.mine, c.free, wrote)
    /\ call' = [call EXCEPT ![o] = Idle]
    /\ told' = IF conflicts = {} THEN Tell(told, db, o, c.st, locked)
               ELSE StillTold(told, db)

\* second pipeline of the fallback: SET key owner PX ttl NX for seats_to_lock
FallbackSet(o) ==
    /\ UNCHANGED <<layout, others>>
    /\ call[o].op = "acquire" /\ call[o].pc = "set"
    /\ LET c == call[o]
           won == {s \in c.pend : GET(store, _key_for(c.st, s)) = None}
           lost == c.pend \ won
           wrote == c.wrote \cup KeysOf(c.st, won)
           db == [k \in Keys |-> IF k \in KeysOf(c.st, c.pend)
                                 THEN SetNxPx(store, k, o, c.ttl)[k]
                                 ELSE store[k]]
       IN  /\ store' = db
           /\ IF lost = {}
              THEN FallbackReturn(o, c, db, c.locked \cup won, {}, wrote)
              ELSE /\ call' = [call EXCEPT ![o] = [c EXCEPT !.pc = "recheck",
                                   !.locked = c.locked \cup won, !.pend = lost,
                                   !.wrote = wrote]]
                   /\ ev' = NoEv
                   /\ UNCHANGED told

\* "Check who owns it now": one redis.get per seat whose SET NX failed
FallbackRecheck(o) ==
    /\ UNCHANGED <<layout, others>>
    /\ call[o].op = "acquire" /\ call[o].pc = "recheck"
    /\ LET c == call[o]
           s == CHOOSE x \in c.pend : \A y \in c.pend : x <= y
           current_owner == GET(store, _key_for(c.st, s))
           conflicts == IF current_owner # None /\ current_owner # o
                        THEN c.conflicts \cup {<<s, current_owner>>}
                        ELSE c.conflicts
           rest == c.pend \ {s}
       IN  IF rest = {}
           THEN FallbackReturn(o, c, store, c.locked, conflicts, c.wrote)
           ELSE /\ call' = [call EXCEPT ![o] = [c EXCEPT !.pend = rest,
                                !.conflicts = conflicts]]
                /\ ev' = NoEv
                /\ UNCHANGED told
    /\ UNCHANGED store

\* the first pipeline of the fallback raises as well (the store is down):
\* the exception leaves acquire_seat_locks
FallbackRaises(o) ==
    /\ UNCHANGED <<layout, others>>
    /\ call[o].op = "acquire" /\ call[o].pc = "get"
    /\ ev' = [AcquireRet(o, call[o].st, call[o].seats, "down",
                         FALSE, {}, {}, {}, {}, {}) EXCEPT !.raised = TRUE]
    /\ call' = [call EXCEPT ![o] = Idle]
    /\ UNCHANGED <<store, told>>

\* ------------------------------------------------------- extend_seat_locks
\* redis.eval(EXTEND_LUA_SCRIPT, ...) answers; when only some seats were
\* extended a second round trip finds out which
ExtendScript(o, st, S, t) ==
    /\ UNCHANGED <<layout, others>>
    /\ MayStart(o)
    /\ LET K == KeysOf(st, S)
           r == EXTEND_LUA_SCRIPT(store, K, o, t)
           touched == Hit(store, OwnedBy(store, K, o))
       IN  /\ store' = r.db
           /\ UNCHANGED told
           /\ IF r.extended = Cardinality(S)
              THEN /\ ev' = ExtendRet(o, st, S, "ok", S, {}, touched)
                   /\ UNCHANGED call
              ELSE IF r.extended > 0
              THEN /\ call' = [call EXCEPT ![o] =
                          [Idle EXCEPT !.op = "extend", !.pc = "report",
                                       !.st = st, !.seats = S, !.ttl = t,
                                       !.touched = touched]]
                   /\ ev' = NoEv
              ELSE /\ ev' = ExtendRet(o, st, S, "ok", {}, S, touched)
                   /\ UNCHANGED call

\* "Need to check which ones were extended": pipeline of GETs
ExtendReport(o) ==
    /\ UNCHANGED <<layout, others>>
    /\ call[o].op = "extend" /\ call[o].pc = "report"
    /\ LET c == call[o]
           extended == MineIn(store, c.st, c.seats, o)
       IN  ev' = ExtendRet(o, c.st, c.seats, "ok", extended,
                           c.seats \ extended, c.touched)
    /\ call' = [call EXCEPT ![o] = Idle]
    /\ UNCHANGED <<store, told>>

\* redis.eval raises: "Fallback to individual extension"
ExtendEvalFails(o, st, S, t) ==
    /\ UNCHANGED <<layout, others>>
    /\ MayStart(o)
    /\ call' = [call EXCEPT ![o] =
           [Idle EXCEPT !.op = "extend", !.pc = "get",
                        !.st = st, !.seats = S, !.ttl = t]]
    /\ ev' = NoEv
    /\ UNCHANGED <<store, told>>

\* first pipeline of the fallback: GET every key
ExtendFallbackGet(o) ==
    /\ UNCHANGED <<layout, others>>
    /\ call[o].op = "extend" /\ call[o].pc = "get"
    /\ LET c == call[o]
           extended == MineIn(store, c.st, c.seats, o)
       IN  IF extended = {}
           THEN /\ ev' = ExtendRet(o, c.st, c.seats, "ok", {}, c.seats, c.touched)
                /\ call' = [call EXCEPT ![o] = Idle]
           ELSE /\ call' = [call EXCEPT ![o] = [c EXCEPT !.pc = "pexpire",
                                                         !.locked = extended]]
                /\ ev' = NoEv
    /\ UNCHANGED <<store, told>>

\* second pipeline of the fallback: PEXPIRE the keys read as owned
ExtendFallbackExpire(o) ==
    /\ UNCHANGED <<layout, others>>
    /\ call[o].op = "extend" /\ call[o].pc = "pexpire"
    /\ LET c == call[o]
           K == KeysOf(c.st, c.locked)
       IN  /\ store' = PEXPIRE(store, K, c.ttl)
           /\ UNCHANGED told
           /\ ev' = ExtendRet(o, c.st, c.seats, "ok", c.locked,
                              c.seats \ c.locked, c.touched \cup Hit(store, K))
    /\ call' = [call EXCEPT ![o] = Idle]

\* ------------------------------------------------------ release_seat_locks
\* seat_ids given, redis.eval(RELEASE_LUA_SCRIPT, ...) answers; when not
\* every seat was released a second round trip asks which keys still exist
ReleaseScript(o, st, S) ==
    /\ UNCHANGED <<layout, others>>
    /\ MayStart(o)
    /\ LET K == KeysOf(st, S)
           r == RELEASE_LUA_SCRIPT(store, K, o)
           touched == Hit(store, OwnedBy(store, K, o))
       IN  /\ store' = r.db
           /\ told' = StillTold(told, r.db)
           /\ IF r.released = Cardinality(S)
              THEN /\ ev' = ReleaseRet(o, st, S, "ok", S, {},
                                       MineIn(store, st, S, o), touched)
                   /\ UNCHANGED call
              ELSE /\ call' = [call EXCEPT ![o] =
                          [Idle EXCEPT !.op = "release", !.pc = "report",
                                       !.st = st, !.seats = S,
                                       !.mine = MineIn(store, st, S, o),
                                       !.touched = touched]]
                   /\ ev' = NoEv

\* "Check which ones were actually released": pipeline of EXISTS
ReleaseReport(o) ==
    /\ UNCHANGED <<layout, others>>
    /\ call[o].op = "release" /\ call[o].pc = "report"
    /\ LET c == call[o]
           released == {s \in c.seats : ~EXISTS(store, _key_for(c.st, s))}
       IN  ev' = ReleaseRet(o, c.st, c.seats, "ok", released,
                            c.seats \ released, c.mine, c.touched)
    /\ call' = [call EXCEPT ![o] = Idle]
    /\ UNCHANGED <<store, told>>

\* seat_ids None or empty: scan_iter(match=_key_pattern(showtime_id))
ReleaseAllScan(o, st) ==
    /\ UNCHANGED <<layout, others>>
    /\ MayStart(o)
    /\ call' = [call EXCEPT ![o] =
           [Idle EXCEPT !.op = "release", !.pc = "eval", !.st = st,
                        !.pend = {SeatOf(k) : k \in
                                    {h \in _key_pattern(st) : EXISTS(store, h)}},
                        !.mine = MineIn(store, st, SeatsOf(st), o)]]
    /\ ev' = NoEv
    /\ UNCHANGED <<store, told>>

\* redis.eval(RELEASE_LUA_SCRIPT, ...) over the scanned keys answers; every
\* scanned key is reported as released
ReleaseAllScript(o) ==
    /\ UNCHANGED <<layout, others>>
    /\ call[o].op = "release" /\ call[o].pc = "eval"
    /\ LET c == call[o]
           K == KeysOf(c.st, c.pend)
           r == RELEASE_LUA_SCRIPT(store, K, o)
       IN  /\ store' = r.db
           /\ told' = StillTold(told, r.db)
           /\ ev' = ReleaseRet(o, c.st, {}, "ok", c.pend, {}, c.mine,
                               Hit(store, OwnedBy(store, K, o)))
    /\ call' = [call EXCEPT ![o] = Idle]

\* redis.eval raises in either branch (S = {} stands for seat_ids None or
\* empty, after the scan): "Fallback to individual release"
ReleaseEvalFails(o, st, S) ==
    /\ UNCHANGED <<layout, others>>
    /\ \/ /\ MayStart(o)
          /\ S # {}
       \/ /\ call[o].op = "release" /\ call[o].pc = "eval"
          /\ S = {} /\ st = call[o].st
    /\ call' = [call EXCEPT ![o] =
           [Idle EXCEPT !.op = "release", !.pc = "get",
                        !.st = st, !.seats = S,
                        !.pend = IF S = {} THEN call[o].pend ELSE S,
                        !.mine = IF S = {} THEN call[o].mine
                                 ELSE MineIn(store, st, S, o)]]
    /\ ev' = NoEv
    /\ UNCHANGED <<store, told>>

\* first pipeline of the fallback: GET every key
ReleaseFallbackGet(o) ==
    /\ UNCHANGED <<layout, others>>
    /\ call[o].op = "release" /\ call[o].pc = "get"
    /\ call' = [call EXCEPT ![o] =
           [call[o] EXCEPT !.pc = "del",
                           !.locked = MineIn(store, call[o].st, call[o].pend, o)]]
    /\ ev' = NoEv
    /\ UNCHANGED <<store, told>>

\* second pipeline of the fallback: DEL the keys read as owned
ReleaseFallbackDel(o) ==
    /\ UNCHANGED <<layout, others>>
    /\ call[o].op = "release" /\ call[o].pc = "del"
    /\ LET c == call[o]
           K == KeysOf(c.st, c.locked)
       IN  /\ store' = DEL(store, K)
           /\ told' = StillTold(told, DEL(store, K))
           /\ ev' = ReleaseRet(o, c.st, c.seats, "ok", c.locked,
                               c.pend \ c.locked, c.mine,
                               c.touched \cup Hit(store, K))
    /\ call' = [call EXCEPT ![o] = Idle]

\* ------------------------------------------------------------- TTL expiry
Tick ==
    /\ \E k \in Keys : EXISTS(store, k)
    /\ store' = Expire(store, FreshMs)
    /\ told' = StillTold(told, Expire(store, FreshMs))
    /\ ev' = TickEv
    /\ UNCHANGED <<call, layout, others>>

\* the non-empty seat lists a request for showtime st can name
Batches(st) == SUBSET SeatsOf(st) \ {{}}

Next ==
    \/ \E o \in Owners, st \in Showtimes, t \in TTLs : \E S \in Batches(st) :
          AcquireNoClient(o, st, S, t)
    \/ \E o \in Owners, st \in Showtimes, t \in TTLs : \E S \in Batches(st) :
          AcquireScript(o, st, S, t)
    \/ \E o \in Owners, st \in Showtimes, t \in TTLs : \E S \in Batches(st) :
          \E ran \in BOOLEAN : AcquireEvalFails(o, st, S, t, ran)
    \/ \E o \in Owners : FallbackGet(o)
    \/ \E o \in Owners : FallbackSet(o)
    \/ \E o \in Owners : FallbackRecheck(o)
    \/ \E o \in Owners : FallbackRaises(o)
    \/ \E o \in Owners, st \in Showtimes, t \in TTLs : \E S \in Batches(st) :
          ExtendScript(o, st, S, t)
    \/ \E o \in Owners, st \in Showtimes, t \in TTLs : \E S \in Batches(st) :
          ExtendEvalFails(o, st, S, t)
    \/ \E o \in Owners : ExtendReport(o)
    \/ \E o \in Owners : ExtendFallbackGet(o)
    \/ \E o \in Owners : ExtendFallbackExpire(o)
    \/ \E o \in Owners, st \in Showtimes : \E S \in Batches(st) :
          ReleaseScript(o, st, S)
    \/ \E o \in Owners, st \in Showtimes : ReleaseAllScan(o, st)
    \/ \E o \in Owners, st \in Showtimes : \E S \in SUBSET SeatsOf(st) :
          ReleaseEvalFails(o, st, S)
    \/ \E o \in Owners : ReleaseReport(o)
    \/ \E o \in Owners : ReleaseAllScript(o)
    \/ \E o \in Owners : ReleaseFallbackGet(o)
    \/ \E o \in Owners : ReleaseFallbackDel(o)
    \/ Tick

Spec == Init /\ [][Next]_vars

\* ---------------------------------------------- _get_showtime_seats_impl
\* the booking query, get_redis() and redis.mget(lock_keys): outcome "ok" is
\* an answer, "timeout" the 0.2 s wait_for expiring (values = all None),
\* "error" any other exception (no lock status at all)
SeatsMget(st, outcome) ==
    /\ UNCHANGED <<lockvars, bookings, hubvars, reqvars>>
    /\ proj.pc = "idle"
    /\ SeatsOf(st) # {}
    /\ LET values == [s \in Seats |->
                        IF outcome = "ok" /\ s \in SeatsOf(st)
                        THEN GET(store, _key_for(st, s)) ELSE None]
           locked_indices == {s \in SeatsOf(st) : values[s] # None}
       IN  IF locked_indices = {}
           THEN /\ view' = SeatMap(st, IF outcome = "ok" THEN "ok"
                                       ELSE "mget_" \o outcome,
                                   values, {}, bookings)
                /\ proj' = ProjIdle
           ELSE /\ proj' = [pc |-> "pttl", st |-> st, values |-> values,
                            rows |-> bookings]
                /\ UNCHANGED view

\* the pipeline of PTTLs for the keys MGET found: "timeout" assumes the
\* seats locked (ttl = 1), "error" leaves the lock sets empty
SeatsPttl(outcome) ==
    /\ UNCHANGED <<lockvars, bookings, hubvars, reqvars>>
    /\ proj.pc = "pttl"
    /\ LET st == proj.st
           locked_indices == {s \in SeatsOf(st) : proj.values[s] # None}
           ttl(s) == IF outcome = "timeout" THEN 1
                     ELSE PTTL(store, _key_for(st, s))
           locked_seat_ids == IF outcome = "error" THEN {}
                              ELSE {s \in locked_indices : ttl(s) > 0}
       IN  view' = SeatMap(st, IF outcome = "ok" THEN "ok"
                               ELSE "pttl_" \o outcome,
                           proj.values, locked_seat_ids, proj.rows)
    /\ proj' = ProjIdle

\* the seat-map projector over a lock store that acquires, releases and
\* expires
ProjInit ==
    /\ store = [k \in Keys |-> NoLock]
    /\ call = [o \in Owners |-> Idle]
    /\ ev = NoEv
    /\ told = {}
    /\ layout \in Layouts
    /\ bookings \in BookingSets
    /\ proj = ProjIdle
    /\ view = NoView
    /\ active_connections = <<>>
    /\ ws = [w \in Subscribers |-> NoSocket]
    /\ tasks = {}
    /\ bcast = NoBcast
    /\ shut = NoShut
    /\ pay = NoPay
    /\ route = NoRoute
    /\ shown = NothingShown

Outcomes == {"ok", "timeout", "error"}

ProjNext ==
    \/ \E o \in Owners, st \in Showtimes, s \in Seats :
          s \in SeatsOf(st) /\ AcquireScript(o, st, {s}, FreshMs)
    \/ \E o \in Owners, st \in Showtimes, s \in Seats :
          s \in SeatsOf(st) /\ ReleaseScript(o, st, {s})
    \/ \E o \in Owners : ReleaseReport(o)
    \/ Tick
    \/ \E st \in Showtimes, outcome \in Outcomes : SeatsMget(st, outcome)
    \/ \E outcome \in Outcomes : SeatsPttl(outcome)

ProjSpec == ProjInit /\ [][ProjNext]_vars

\* ------------------------------------------------------ websocket_endpoint
\* "await websocket.accept()" first; when it raises the handler returns
WsAccept(w, st, mute, ok) ==
    /\ UNCHANGED <<lockvars, projvars, reqvars, active_connections, tasks, bcast, shut>>
    /\ Running
    /\ ws[w].pc = "out"
    /\ ws' = [ws EXCEPT ![w] =
                 IF ok THEN [NoSocket EXCEPT !.pc = "accepted", !.st = st,
                                             !.up = TRUE, !.mute = mute]
                 ELSE Returned([NoSocket EXCEPT !.st = st], "unaccepted")]

\* the showtime query and, without an await in between, the registration:
\* an unknown showtime is closed with 1008, a failing query with 1011
WsValidate(w, db_ok) ==
    /\ UNCHANGED <<lockvars, projvars, reqvars, tasks, bcast, shut>>
    /\ Running
    /\ ws[w].pc = "accepted"
    /\ LET sock == ws[w]
           closed(code, left) ==
               Returned([sock EXCEPT !.code = IF Sendable(sock) THEN code
                                              ELSE @], left)
       IN  IF ~db_ok
           THEN /\ ws' = [ws EXCEPT ![w] = closed(InternalError, "db_error")]
                /\ UNCHANGED active_connections
           ELSE IF ~ShowtimeExists(sock.st)
           THEN /\ ws' = [ws EXCEPT ![w] =
                             closed(PolicyViolation, "not_found")]
                /\ UNCHANGED active_connections
           ELSE /\ ws' = [ws EXCEPT ![w].pc = "hello"]
                /\ active_connections' =
                       register(active_connections, w, sock.st)

\* the handler leaves through its finally block
Leave(w) ==
    /\ ws' = [ws EXCEPT ![w] =
                 Returned(@, IF w \in Members(Conns(active_connections, @.st))
                             THEN "removed" ELSE "absent")]
    /\ active_connections' = disconnect(active_connections, w, ws[w].st)
    /\ shut' = ShutAfter(disconnect(active_connections, w, ws[w].st))

\* the 'connected' message: a closed socket ends the handler
WsHello(w) ==
    /\ UNCHANGED <<lockvars, projvars, reqvars, tasks, bcast>>
    /\ Running
    /\ ws[w].pc = "hello"
    /\ IF Sendable(ws[w])
       THEN /\ ws' = [ws EXCEPT ![w].pc = "open"]
            /\ UNCHANGED <<active_connections, shut>>
       ELSE Leave(w)

\* receive_text() returns a message of the client (a ping is answered with a
\* pong, anything else is ignored) and the loop waits again
WsReceive(w) ==
    /\ UNCHANGED <<lockvars, projvars, reqvars, active_connections, tasks, bcast, shut>>
    /\ Running
    /\ ws[w].pc = "open" /\ Sendable(ws[w]) /\ ~ws[w].mute
    /\ ws' = [ws EXCEPT ![w].pings = 0]

\* 30 s without a message: the server sends a ping and the loop goes on
\* unless the send raises
WsIdle(w) ==
    /\ UNCHANGED <<lockvars, projvars, reqvars, tasks, bcast>>
    /\ Running
    /\ ws[w].pc = "open"
    /\ IF Sendable(ws[w])
       THEN /\ ws' = [ws EXCEPT ![w].pings = IF @ = 2 THEN 1 ELSE @ + 1]
            /\ UNCHANGED <<active_connections, shut>>
       ELSE Leave(w)

\* receive_text() raises WebSocketDisconnect or RuntimeError
WsGone(w) ==
    /\ UNCHANGED <<lockvars, projvars, reqvars, tasks, bcast>>
    /\ Running
    /\ ws[w].pc = "open" /\ ~Sendable(ws[w])
    /\ Leave(w)

\* the client goes away or its connection breaks
SocketDies(w) ==
    /\ UNCHANGED <<lockvars, projvars, reqvars, active_connections, tasks, bcast, shut>>
    /\ Running
    /\ ws[w].pc \in {"hello", "open"} /\ ws[w].up
    /\ ws' = [ws EXCEPT ![w].up = FALSE]

\* ---------------------------------------------------- broadcast_to_showtime
\* a route handler creates a broadcast task
Schedule(kind, st) ==
    /\ UNCHANGED <<lockvars, projvars, reqvars, active_connections, ws, bcast, shut>>
    /\ Running
    /\ Task(kind, st) \notin tasks
    /\ tasks' = tasks \cup {Task(kind, st)}

\* a task reaches broadcast_to_showtime: return without subscribers, else
\* snapshot the list and create one _safe_send per subscriber (at most one
\* broadcast is in flight); ev no longer shows the store event that came
\* before the broadcast
BroadcastStart(t) ==
    /\ UNCHANGED <<store, call, told, layout>>
    /\ UNCHANGED <<projvars, reqvars, active_connections, ws, shut>>
    /\ ev' = NoEv
    /\ Running
    /\ t \in tasks /\ bcast.pc = "idle"
    /\ tasks' = tasks \ {t}
    /\ LET conns == Conns(active_connections, t.st)
       IN  bcast' = IF conns = <<>> THEN NoBcast
                    ELSE [NoBcast EXCEPT !.pc = "sending", !.kind = t.kind,
                                         !.st = t.st, !.msg = t.msg,
                                         !.conns = conns]

\* _safe_send(ws) with the exception of send_json reaching the request that
\* scheduled the broadcast: its response becomes a 500
BroadcastSend_Propagates(w) ==
    /\ UNCHANGED <<store, call, told, layout>>
    /\ UNCHANGED <<projvars, pay, active_connections, ws, tasks, shut>>
    /\ ev' = NoEv
    /\ Running
    /\ bcast.pc = "sending"
    /\ w \in Members(bcast.conns) /\ bcast.results[w] = "-"
    /\ bcast' = [bcast EXCEPT !.results[w] =
                    IF Sendable(ws[w]) THEN None ELSE "exc"]
    /\ shown' = IF Sendable(ws[w])
                THEN [shown EXCEPT ![w] = Received(@, bcast.msg)]
                ELSE shown
    /\ route' = IF Sendable(ws[w]) THEN route
                ELSE [route EXCEPT !.status = 500]

\* _safe_send(ws): None, or the exception send_json raised; ev no longer
\* shows the store event that came before the send
BroadcastSend(w) ==
    /\ UNCHANGED <<store, call, told, layout>>
    /\ UNCHANGED <<projvars, pay, route, active_connections, ws, tasks, shut>>
    /\ ev' = NoEv
    /\ Running
    /\ bcast.pc = "sending"
    /\ w \in Members(bcast.conns) /\ bcast.results[w] = "-"
    /\ bcast' = [bcast EXCEPT !.results[w] =
                    IF Sendable(ws[w]) THEN None ELSE "exc"]
    /\ shown' = IF Sendable(ws[w])
                THEN [shown EXCEPT ![w] = Received(@, bcast.msg)]
                ELSE shown

\* gather() has every result: prune the connections that failed
BroadcastPrune ==
    /\ UNCHANGED <<lockvars, projvars, reqvars, ws, tasks>>
    /\ Running
    /\ bcast.pc = "sending"
    /\ \A w \in Members(bcast.conns) : bcast.results[w] # "-"
    /\ LET reg == Prune(active_connections, bcast.conns, bcast.results,
                        bcast.st)
       IN  /\ active_connections' = reg
           /\ shut' = ShutAfter(reg)
    /\ bcast' = NoBcast

\* ------------------------------------------------------ lifespan, shutdown
\* list(manager.active_connections.items()) and the first list(connections)
ShutdownStart ==
    /\ UNCHANGED <<lockvars, projvars, reqvars, active_connections, ws, tasks, bcast>>
    /\ shut.pc = "up"
    /\ LET items == [i \in DOMAIN active_connections |->
                        active_connections[i].id]
           n == NextList(items, active_connections, {})
       IN  shut' = [NoShut EXCEPT
                       !.pc = IF n.cur = <<>> THEN "down" ELSE "closing",
                       !.items = n.items, !.cur = n.cur,
                       !.start = Registered(active_connections)]

\* "await websocket.close(code=1001, reason='Server shutting down')" for the
\* next subscriber of the loop
ShutdownClose ==
    /\ UNCHANGED <<lockvars, projvars, reqvars, active_connections, tasks, bcast>>
    /\ shut.pc = "closing"
    /\ LET w == Head(shut.cur)
           ok == Sendable(ws[w])
           rest == Remaining(shut.cur, ~ok)
           n == IF rest # <<>> THEN [items |-> shut.items, cur |-> rest]
                ELSE NextList(shut.items, active_connections, shut.stale)
       IN  /\ ws' = [ws EXCEPT ![w].code = IF ok THEN GoingAway ELSE @]
           /\ shut' = [shut EXCEPT
                          !.pc = IF n.cur = <<>> THEN "down" ELSE "closing",
                          !.items = n.items, !.cur = n.cur,
                          !.tried = @ \cup {w}]

HubInit ==
    /\ Init
    /\ layout = [st \in Showtimes |-> {101}]

HubNext ==
    \/ \E w \in Subscribers, st \in Requested, ok \in BOOLEAN :
          WsAccept(w, st, FALSE, ok)
    \/ \E w \in Subscribers, db_ok \in BOOLEAN : WsValidate(w, db_ok)
    \/ \E w \in Subscribers : WsHello(w)
    \/ \E w \in Subscribers : WsReceive(w)
    \/ \E w \in Subscribers : WsIdle(w)
    \/ \E w \in Subscribers : WsGone(w)
    \/ \E w \in Subscribers : SocketDies(w)
    \/ \E st \in Showtimes : Schedule("seat_update", st)
    \/ \E t \in tasks : BroadcastStart(t)
    \/ \E w \in Subscribers : BroadcastSend(w)
    \/ BroadcastPrune
    \/ ShutdownStart
    \/ ShutdownClose

HubSpec == HubInit /\ [][HubNext]_vars

\* ------------------------------------- redis_lock_seats, redis_unlock_seats
\* the broadcast tasks redis_lock_seats creates from the result of
\* acquire_seat_locks: one seat_locked per locked seat, only without
\* conflicts, and a seat_update when the showtime has subscribers
LockTasks(st, locked, conflicts) ==
    IF locked # {} /\ conflicts = {}
    THEN {Task("seat_locked", st)} \cup
         (IF Conns(active_connections, st) # <<>>
          THEN {Task("seat_update", st)} ELSE {})
    ELSE {}
\* the broadcast tasks redis_unlock_seats creates: a seat_update and one
\* seat_released per released seat
UnlockTasks(st, released) ==
    IF released # {}
    THEN {Task("seat_update", st), Task("seat_released", st)} ELSE {}

\* the broadcasts of the previous request have run
Quiet == tasks = {} /\ bcast.pc = "idle"

\* POST redis-lock-seats: acquire_seat_locks answered by the script, then
\* the broadcasts are scheduled before the handler awaits again
redis_lock_seats(o, st, S, t) ==
    /\ UNCHANGED <<layout, projvars, reqvars, active_connections, ws, bcast, shut>>
    /\ call[o].op = "idle"
    /\ LET r == MULTI_LOCK_LUA(store, KeysOf(st, S), o, t)
       IN  /\ Quiet
           /\ store' = r.db
           /\ ev' = AcquireRet(o, st, S, "ok", r.ok = 1, r.locked,
                               r.conflicts, MineIn(store, st, S, o),
                               FreeIn(store, st, S), Diff(store, r.db))
           /\ told' = IF r.ok = 1 THEN Tell(told, r.db, o, st, r.locked)
                      ELSE StillTold(told, r.db)
           /\ tasks' = tasks \cup LockTasks(st, r.locked, r.conflicts)
    /\ UNCHANGED call

\* POST redis-unlock-seats: release_seat_locks answered by the script; when
\* every seat was released the broadcasts are scheduled, else the service
\* asks which keys still exist
redis_unlock_seats(o, st, S) ==
    /\ UNCHANGED <<layout, projvars, reqvars, active_connections, ws, bcast, shut>>
    /\ MayStart(o)
    /\ LET K == KeysOf(st, S)
           r == RELEASE_LUA_SCRIPT(store, K, o)
           touched == Hit(store, OwnedBy(store, K, o))
       IN  /\ store' = r.db
           /\ told' = StillTold(told, r.db)
           /\ IF r.released = Cardinality(S)
              THEN /\ Quiet
                   /\ ev' = ReleaseRet(o, st, S, "ok", S, {},
                                       MineIn(store, st, S, o), touched)
                   /\ tasks' = tasks \cup UnlockTasks(st, S)
                   /\ UNCHANGED call
              ELSE /\ call' = [call EXCEPT ![o] =
                          [Idle EXCEPT !.op = "release", !.pc = "report",
                                       !.st = st, !.seats = S,
                                       !.mine = MineIn(store, st, S, o),
                                       !.touched = touched]]
                   /\ ev' = NoEv
                   /\ UNCHANGED tasks

\* redis_unlock_seats after the EXISTS pipeline of release_seat_locks
redis_unlock_report(o) ==
    /\ UNCHANGED <<layout, projvars, reqvars, active_connections, ws, bcast, shut>>
    /\ call[o].op = "release" /\ call[o].pc = "report"
    /\ LET c == call[o]
           released == {s \in c.seats : ~EXISTS(store, _key_for(c.st, s))}
       IN  /\ Quiet
           /\ ev' = ReleaseRet(o, c.st, c.seats, "ok", released,
                               c.seats \ released, c.mine, c.touched)
           /\ tasks' = tasks \cup UnlockTasks(c.st, released)
    /\ call' = [call EXCEPT ![o] = Idle]
    /\ UNCHANGED <<store, told>>

\* every subscriber is connected to the one showtime on sale; subscriber 1
\* is a client that never sends anything; buyers ask for the whole hall
LiveInit ==
    /\ store = [k \in Keys |-> NoLock]
    /\ call = [o \in Owners |-> Idle]
    /\ ev = NoEv
    /\ told = {}
    /\ layout = [st \in Showtimes |-> IF st = 42 THEN Seats ELSE {}]
    /\ bookings = {}
    /\ proj = ProjIdle
    /\ view = NoView
    /\ active_connections =
           <<[id |-> 42, conns |-> [i \in 1 .. NumSubscribers |-> i]]>>
    /\ ws = [w \in Subscribers |->
                [NoSocket EXCEPT !.pc = "open", !.st = 42, !.up = TRUE,
                                 !.mute = (w = 1)]]
    /\ tasks = {}
    /\ bcast = NoBcast
    /\ shut = NoShut
    /\ pay = NoPay
    /\ route = NoRoute
    /\ shown = NothingShown

LiveNext ==
    \/ \E o \in Owners, st \in Showtimes :
          SeatsOf(st) # {} /\ redis_lock_seats(o, st, SeatsOf(st), FreshMs)
    \/ \E o \in Owners, st \in Showtimes :
          SeatsOf(st) # {} /\ redis_unlock_seats(o, st, SeatsOf(st))
    \/ \E o \in Owners : redis_unlock_report(o)
    \/ Tick
    \/ \E t \in tasks : BroadcastStart(t)
    \/ \E w \in Subscribers : BroadcastSend(w)
    \/ BroadcastPrune
    \/ \E w \in Subscribers : WsReceive(w)
    \/ \E w \in Subscribers : WsIdle(w)
    \/ \E w \in Subscribers : WsGone(w)
    \/ \E w \in Subscribers : SocketDies(w)

\* the event loop runs every task that can run: a created broadcast task
\* starts, each _safe_send and the prune loop finish, the 30 s timer and a
\* closed socket wake the receive loop, the second round trip of a release
\* returns; expiry is the store's clock.  Clients are free to do nothing.
LiveFair ==
    /\ WF_vars(Tick)
    /\ WF_vars(\E t \in tasks : BroadcastStart(t))
    /\ WF_vars(\E w \in Subscribers : BroadcastSend(w))
    /\ WF_vars(BroadcastPrune)
    /\ \A w \in Subscribers : WF_vars(WsIdle(w) \/ WsGone(w))
    /\ WF_vars(\E o \in Owners : redis_unlock_report(o))

LiveSpec == LiveInit /\ [][LiveNext]_vars /\ LiveFair

\* ---------------------------------------------------------- verify_payment
\* the order lookup and validate_locks_for_booking (one MGET): an invalid
\* answer adds a PAID_ORPHANED payment, commits it (saved, unless the commit
\* raises) and raises 409, all inside
\* "try: ... except Exception: logger.warning(...)", so the handler goes on to
\* the booking either way
VerifyValidate(o, st, S, outcome, saved) ==
    /\ UNCHANGED <<lockvars, projvars, hubvars, route, shown>>
    /\ pay.pc = "idle"
    /\ LET valid == validate_locks_for_booking(store, st, S, o, outcome)
       IN  pay' = [NoPay EXCEPT !.pc = "book", !.st = st, !.seats = S,
                                !.owner = o, !.valid = valid,
                                !.orphan = (~valid /\ saved)]

\* Booking(**sanitized), db.add, db.flush, the ticket, the Payment row and
\* db.commit(): committed, or an exception on the way that ends in
\* db.rollback() and a 500.  Payment.order_id is unique, so the commit of
\* the PAID row raises when the order already has its PAID_ORPHANED row
VerifyBook(committed) ==
    /\ UNCHANGED <<lockvars, proj, view, hubvars, route, shown>>
    /\ pay.pc = "book"
    /\ pay.orphan => ~committed
    /\ bookings' = Persisted(bookings, BookingRows(pay.st, pay.seats),
                             committed)
    /\ pay' = IF committed THEN [pay EXCEPT !.pc = "release_get"]
              ELSE [pay EXCEPT !.pc = "idle", !.status = 500]

\* release_seat_locks_simple, the pipeline of GETs: a key is queued for
\* deletion when its owner is the caller; an exception ends the release, and
\* with nothing queued the second pipeline is empty
VerifyReleaseGet(outcome) ==
    /\ UNCHANGED <<lockvars, projvars, hubvars, route, shown>>
    /\ pay.pc = "release_get"
    /\ LET del == IF outcome # "ok" THEN {}
                  ELSE {k \in KeysOf(pay.st, pay.seats) :
                           /\ GET(store, k) # None
                           /\ _extract_owner_from_redis_value(GET(store, k))
                                  = pay.owner}
       IN  pay' = IF del = {}
                  THEN [pay EXCEPT !.pc = "idle", !.status = 200]
                  ELSE [pay EXCEPT !.pc = "release_del", !.del = del]

\* release_seat_locks_simple, the pipeline of DELs, and the response
VerifyReleaseDel(outcome) ==
    /\ UNCHANGED <<call, told, layout, projvars, hubvars, route, shown>>
    /\ pay.pc = "release_del"
    /\ store' = IF outcome = "ok" THEN DEL(store, pay.del) ELSE store
    /\ ev' = NoEv
    /\ pay' = [pay EXCEPT !.pc = "idle", !.status = 200]

\* the booking table before the first payment: empty, or an earlier booking
\* that names the seat by its label
PayBookings == {{}, {<<42, LabelToken("A", 1)>>}}

\* payments of one owner's orders next to the lock service and the seat
\* map: every showtime sells the first seat, showtime 42 is on sale
PayInit ==
    /\ store = [k \in Keys |-> NoLock]
    /\ call = [o \in Owners |-> Idle]
    /\ ev = NoEv
    /\ told = {}
    /\ layout = [st \in Showtimes |-> {101}]
    /\ bookings \in PayBookings
    /\ proj = ProjIdle
    /\ view = NoView
    /\ active_connections = <<>>
    /\ ws = [w \in Subscribers |-> NoSocket]
    /\ tasks = {}
    /\ bcast = NoBcast
    /\ shut = NoShut
    /\ pay = NoPay
    /\ route = NoRoute
    /\ shown = NothingShown

PayOutcomes == {"ok", "error"}

PayNext ==
    \/ \E o \in Owners, s \in Seats :
          s \in SeatsOf(42) /\ AcquireScript(o, 42, {s}, FreshMs)
    \/ \E o \in Owners, s \in Seats :
          s \in SeatsOf(42) /\ ExtendScript(o, 42, {s}, FreshMs)
    \/ \E o \in Owners, s \in Seats :
          s \in SeatsOf(42) /\ ReleaseScript(o, 42, {s})
    \/ \E o \in Owners : ReleaseReport(o)
    \/ Tick
    \/ \E o \in Owners, outcome \in PayOutcomes, saved \in BOOLEAN :
          \E S \in Batches(42) : VerifyValidate(o, 42, S, outcome, saved)
    \/ \E committed \in BOOLEAN : VerifyBook(committed)
    \/ \E outcome \in PayOutcomes : VerifyReleaseGet(outcome)
    \/ \E outcome \in PayOutcomes : VerifyReleaseDel(outcome)
    \/ \E outcome \in Outcomes : SeatsMget(42, outcome)
    \/ \E outcome \in Outcomes : SeatsPttl(outcome)

PaySpec == PayInit /\ [][PayNext]_vars

\* ------------------------------------------------------------- lock routes
\* the broadcast redis_extend_locks creates: a seat_update when a seat was
\* extended
ExtendTasks(st, extended) ==
    IF extended # {} THEN {Task("seat_update", st)} ELSE {}

\* what a step of a lock route leaves alone
RouteFrame ==
    UNCHANGED <<call, layout, projvars, pay, shown, active_connections, ws,
                bcast, shut>>

\* the request reaches the server and FastAPI solves Depends(get_redis)
\* before the handler body: get_redis sends PING, and raises when the store
\* does not answer (the request ends in a 500)
get_redis(op, st, seat_ids, o, alive) ==
    /\ RouteFrame
    /\ UNCHANGED <<store, ev, told, tasks>>
    /\ Running
    /\ route.pc = "idle"
    /\ route' = IF alive
                THEN [NoRoute EXCEPT !.pc = "body", !.op = op, !.st = st,
                                     !.seat_ids = seat_ids, !.owner = o,
                                     !.pings = 1]
                ELSE [NoRoute EXCEPT !.op = op, !.st = st, !.pings = 1,
                                     !.status = 500]

\* the handler body starts with the showtime query: "if st is None: raise
\* HTTPException(404)"
RouteNotFound ==
    /\ RouteFrame
    /\ UNCHANGED <<store, ev, told, tasks>>
    /\ route.pc = "body"
    /\ ~ShowtimeExists(route.st)
    /\ route' = [route EXCEPT !.pc = "idle", !.status = 404]

\* redis_lock_seats: acquire_seat_locks answered by the script, the
\* broadcasts scheduled, then 409 with conflicts and the response otherwise
RouteLock ==
    /\ RouteFrame
    /\ route.pc = "body" /\ route.op = "lock"
    /\ ShowtimeExists(route.st)
    /\ LET S == Members(route.seat_ids)
           r == MULTI_LOCK_LUA(store, KeysOf(route.st, S), route.owner,
                               FreshMs)
       IN  /\ store' = r.db
           /\ ev' = NoEv
           /\ told' = IF r.ok = 1
                      THEN Tell(told, r.db, route.owner, route.st, r.locked)
                      ELSE StillTold(told, r.db)
           /\ tasks' = tasks \cup LockTasks(route.st, r.locked, r.conflicts)
           /\ route' = [route EXCEPT
                           !.pc = "idle", !.calls = 1,
                           !.status = IF r.conflicts # {} THEN 409 ELSE 200,
                           !.resp = [NoResp EXCEPT !.success = (r.ok = 1),
                                                   !.locked = r.locked,
                                                   !.conflicts = r.conflicts]]

\* redis_extend_locks: extend_seat_locks answered by the script; when only
\* some seats were extended the service asks which
RouteExtend ==
    /\ RouteFrame
    /\ route.pc = "body" /\ route.op = "extend"
    /\ ShowtimeExists(route.st)
    /\ LET S == Members(route.seat_ids)
           r == EXTEND_LUA_SCRIPT(store, KeysOf(route.st, S), route.owner,
                                  MaxTtlTicks * FreshMs)
           extended == IF r.extended = Len(route.seat_ids) THEN S ELSE {}
       IN  /\ store' = r.db
           /\ ev' = NoEv
           /\ UNCHANGED told
           /\ IF 0 < r.extended /\ r.extended < Len(route.seat_ids)
              THEN /\ route' = [route EXCEPT !.pc = "report", !.calls = 1]
                   /\ UNCHANGED tasks
              ELSE /\ tasks' = tasks \cup ExtendTasks(route.st, extended)
                   /\ route' = [route EXCEPT
                          !.pc = "idle", !.calls = 1, !.status = 200,
                          !.resp = [NoResp EXCEPT !.extended = extended,
                                                  !.not_owned = S \ extended]]

\* redis_extend_locks after the GET pipeline of extend_seat_locks
RouteExtendReport ==
    /\ RouteFrame
    /\ UNCHANGED <<store, ev, told>>
    /\ route.pc = "report" /\ route.op = "extend"
    /\ LET S == Members(route.seat_ids)
           extended == MineIn(store, route.st, S, route.owner)
       IN  /\ tasks' = tasks \cup ExtendTasks(route.st, extended)
           /\ route' = [route EXCEPT
                           !.pc = "idle", !.calls = 2, !.status = 200,
                           !.resp = [NoResp EXCEPT !.extended = extended,
                                                   !.not_owned = S \ extended]]

\* redis_unlock_seats: "seat_ids": [] reaches release_seat_locks as an empty
\* list, and "if not seat_ids" sends it to scan_iter; a list of seats goes to
\* the script, and to the EXISTS pipeline when not every seat was released
RouteUnlock ==
    /\ RouteFrame
    /\ route.pc = "body" /\ route.op = "unlock"
    /\ ShowtimeExists(route.st)
    /\ ev' = NoEv
    /\ LET S == Members(route.seat_ids)
           r == RELEASE_LUA_SCRIPT(store, KeysOf(route.st, S), route.owner)
       IN  IF route.seat_ids = <<>>
           THEN /\ route' = [route EXCEPT
                       !.pc = "eval", !.calls = 1,
                       !.pend = {SeatOf(k) : k \in
                                   {h \in _key_pattern(route.st) :
                                       EXISTS(store, h)}}]
                /\ UNCHANGED <<store, told, tasks>>
           ELSE /\ store' = r.db
                /\ told' = StillTold(told, r.db)
                /\ IF r.released = Len(route.seat_ids)
                   THEN /\ tasks' = tasks \cup UnlockTasks(route.st, S)
                        /\ route' = [route EXCEPT
                               !.pc = "idle", !.calls = 1, !.status = 200,
                               !.resp = [NoResp EXCEPT !.released = S]]
                   ELSE /\ route' = [route EXCEPT !.pc = "report",
                                                  !.calls = 1]
                        /\ UNCHANGED tasks

\* redis_unlock_seats after the EXISTS pipeline of release_seat_locks
RouteUnlockReport ==
    /\ RouteFrame
    /\ UNCHANGED <<store, ev, told>>
    /\ route.pc = "report" /\ route.op = "unlock"
    /\ LET S == Members(route.seat_ids)
           released == {s \in S : ~EXISTS(store, _key_for(route.st, s))}
       IN  /\ tasks' = tasks \cup UnlockTasks(route.st, released)
           /\ route' = [route EXCEPT
                           !.pc = "idle", !.calls = 2, !.status = 200,
                           !.resp = [NoResp EXCEPT !.released = released,
                                                   !.not_owned = S \ released]]

\* redis_unlock_seats after the scan: the script runs over the scanned keys
\* and every scanned key is reported as released
RouteUnlockAll ==
    /\ RouteFrame
    /\ route.pc = "eval" /\ route.op = "unlock"
    /\ LET r == RELEASE_LUA_SCRIPT(store, KeysOf(route.st, route.pend),
                                   route.owner)
       IN  /\ store' = r.db
           /\ ev' = NoEv
           /\ told' = StillTold(told, r.db)
           /\ tasks' = tasks \cup UnlockTasks(route.st, route.pend)
           /\ route' = [route EXCEPT
                           !.pc = "idle", !.calls = 2, !.status = 200,
                           !.resp = [NoResp EXCEPT !.released = route.pend]]

\* redis_inspect_locks: "seat_ids=" fails int("") with a 400; else
\* inspect_locks, whose pipeline answers or raises
RouteInspect(outcome) ==
    /\ RouteFrame
    /\ UNCHANGED <<store, ev, told, tasks>>
    /\ route.pc = "body" /\ route.op = "inspect"
    /\ ShowtimeExists(route.st)
    /\ route' = IF route.seat_ids = <<>>
                THEN [route EXCEPT !.pc = "idle", !.status = 400]
                ELSE [route EXCEPT
                         !.pc = "idle", !.calls = 1, !.status = 200,
                         !.resp = [NoResp EXCEPT !.seats =
                                      inspect_locks(store, route.st,
                                                    route.seat_ids, outcome)]]

\* the four lock routes in front of the lock service and the hub: one hall
\* on sale, a known and an unknown showtime requested, one subscriber
\* connected, one request at a time, sent when the broadcasts of the one
\* before have run
Ops == {"lock", "extend", "unlock", "inspect"}

RouteInit ==
    /\ store = [k \in Keys |-> NoLock]
    /\ call = [o \in Owners |-> Idle]
    /\ ev = NoEv
    /\ told = {}
    /\ layout = [st \in Showtimes |-> IF st = 42 THEN Seats ELSE {}]
    /\ bookings = {}
    /\ proj = ProjIdle
    /\ view = NoView
    /\ active_connections = <<[id |-> 42, conns |-> <<1>>]>>
    /\ ws = [w \in Subscribers |->
                IF w = 1
                THEN [NoSocket EXCEPT !.pc = "open", !.st = 42, !.up = TRUE]
                ELSE NoSocket]
    /\ tasks = {}
    /\ bcast = NoBcast
    /\ shut = NoShut
    /\ pay = NoPay
    /\ route = NoRoute
    /\ shown = NothingShown

RouteNext ==
    \/ \E op \in Ops, st \in {42, 99}, seat_ids \in SeatLists, o \in Owners,
          alive \in BOOLEAN :
          /\ op \in {"lock", "extend"} => seat_ids # <<>>
          /\ Quiet
          /\ get_redis(op, st, seat_ids, o, alive)
    \/ RouteNotFound
    \/ RouteLock
    \/ RouteExtend
    \/ RouteExtendReport
    \/ RouteUnlock
    \/ RouteUnlockReport
    \/ RouteUnlockAll
    \/ \E outcome \in PayOutcomes : RouteInspect(outcome)
    \/ Tick
    \/ \E t \in tasks : BroadcastStart(t)
    \/ \E w \in Subscribers : BroadcastSend(w)
    \/ BroadcastPrune
    \/ \E w \in Subscribers : SocketDies(w)

RouteSpec == RouteInit /\ [][RouteNext]_vars

\* ------------------------------------------------- the script path alone
\* acquire_seat_locks answered by MULTI_LOCK_LUA, release_seat_locks by
\* RELEASE_LUA_SCRIPT, and expiry: every store the atomic path can build
ScriptNext ==
    \/ \E o \in Owners, st \in Showtimes, t \in TTLs : \E S \in Batches(st) :
          AcquireScript(o, st, S, t)
    \/ \E o \in Owners, st \in Showtimes : \E S \in Batches(st) :
          ReleaseScript(o, st, S)
    \/ \E o \in Owners : ReleaseReport(o)
    \/ Tick

ScriptSpec == Init /\ [][ScriptNext]_vars

\* ------------------------------------------------------------------ claims
AcquireReturned == ev.op = "acquire" /\ ~ev.raised
\* another owner holds the entry of key and was told so by a success:true
HeldByRival(key, o) == key \in told /\ GET(store, key) \notin {None, o}
\* the step from the current state is taken by a handler of owner o
ActorIs(o) == call'[o] # call[o] \/ (call' = call /\ ev'.owner = o)
\* ... and that handler is an op call
StepOf(o, op) ==
    /\ ActorIs(o)
    /\ IF call'[o].op # "idle" THEN call'[o].op = op ELSE ev'.op = op

\* C1: mutual exclusion. No acquire returns success:true with a seat in
\* locked while another owner, who was told success:true for that seat, still
\* holds its lock (neither released nor expired).
C1_MutualExclusion ==
    AcquireReturned /\ ev.success =>
        \A s \in ev.locked : ~HeldByRival(_key_for(ev.st, s), ev.owner)

\* C2: atomicity. After an acquire that returned success:false no seat of
\* the request that was unlocked before the call is locked by the caller.
C2_Atomicity ==
    AcquireReturned /\ ~ev.success =>
        \A s \in ev.free : GET(store, _key_for(ev.st, s)) # ev.owner

\* C3: a failed batch leaves no side effects. An acquire that returned
\* success:false changed no entry of the store.
C3_NoSideEffects ==
    AcquireReturned /\ ~ev.success => ev.changed = {}

\* C4: simultaneous claims have exactly one winner. An acquire for one seat
\* returns either success:true with the seat in locked, and then no other
\* owner holds the seat, or success:false with a conflict for the seat that
\* names the owner holding it.
C4_OneWinner ==
    AcquireReturned /\ Cardinality(ev.seats) = 1 =>
        \A s \in ev.seats :
            LET key == _key_for(ev.st, s)
            IN  \/ /\ ev.success
                   /\ ev.locked = {s} /\ ev.conflicts = {}
                   /\ ~HeldByRival(key, ev.owner)
                \/ /\ ~ev.success
                   /\ ev.locked = {}
                   /\ GET(store, key) \notin {None, ev.owner}
                   /\ ev.conflicts = {<<s, GET(store, key)>>}

\* C5: TTL correctness. A lock stays in the store, with its owner, for exactly
\* the TTL it was given: in every step an existing entry is left alone, or
\* FreshMs of its TTL elapse, or it is extended or released by its owner.
C5_TtlCorrect ==
    [][\A key \in Keys : EXISTS(store, key) =>
          \/ store'[key] = store[key]
          \/ ev'.op = "tick" /\ store'[key] = Expire(store, FreshMs)[key]
          \/ StepOf(store[key].owner, "extend")
          \/ StepOf(store[key].owner, "release")]_vars

\* C6: idempotent re-acquire. An acquire for seats the caller holds at every
\* read returns success:true, locked = the seats, no conflicts, and changes no
\* entry: every seat is still held by the caller.
C6_IdempotentReacquire ==
    AcquireReturned /\ ev.mine = ev.seats =>
        /\ ev.success
        /\ ev.locked = ev.seats
        /\ ev.conflicts = {}
        /\ ev.changed = {}
        /\ \A s \in ev.seats : GET(store, _key_for(ev.st, s)) = ev.owner

C6_Witness ==
    /\ AcquireReturned /\ ev.client = "ok"
    /\ ev.mine = ev.seats /\ Cardinality(ev.seats) = 2
    /\ ev.success /\ ev.locked = ev.seats

\* C7: the acquire path fails closed. Without a reachable store (no client,
\* or the script and the fallback both fail) acquire returns no success:true
\* and no locked seat.
C7_FailClosed ==
    ev.op = "acquire" /\ ev.client # "ok" => ~ev.success /\ ev.locked = {}

\* C8: release scoping. A release with seat_ids None deletes only entries
\* that belong to the caller and to the showtime, and afterwards the caller
\* holds none of the seats of the showtime it held when the call began.
C8_ReleaseScoping ==
    ev.op = "release" /\ ev.seats = {} =>
        /\ \A t \in ev.touched : t[2] = ev.owner /\ t[1][1] = ev.st
        /\ \A s \in ev.mine : GET(store, _key_for(ev.st, s)) # ev.owner

\* C9: extend ownership check. Every entry whose TTL an extend changed
\* belonged to the caller at the moment of the PEXPIRE.
C9_ExtendOwnership ==
    ev.op = "extend" => \A t \in ev.touched : t[2] = ev.owner

\* C10: a lock's owner never changes directly from one owner to another, and
\* an entry disappears only by TTL expiry or by a release of its holder.
C10_OwnerChange ==
    [][\A key \in Keys :
          EXISTS(store, key) /\ store'[key].owner # store[key].owner =>
              /\ store'[key].owner = None
              /\ \/ ev'.op = "tick"
                 \/ StepOf(store[key].owner, "release")]_vars

\* C11: with a reachable store and a non-empty seat list extend and release
\* do not raise and put every requested seat in exactly one of their two
\* lists; release reports a seat that has no lock as released and a seat held
\* by another owner as not_owned.
C11_ReportsEverySeat ==
    ev.op \in {"extend", "release"} /\ ev.client = "ok" /\ ev.seats # {} =>
        LET done == IF ev.op = "extend" THEN ev.extended ELSE ev.released
        IN  /\ ~ev.raised
            /\ done \cap ev.not_owned = {}
            /\ done \cup ev.not_owned = ev.seats
            /\ ev.op = "release" =>
                 \A s \in ev.seats :
                     LET holder == GET(store, _key_for(ev.st, s))
                     IN  /\ holder = None => s \in ev.released
                         /\ holder \notin {None, ev.owner} => s \in ev.not_owned

\* C12: conflict detail. An acquire that returned success:false returns an
\* empty locked list, and its conflicts are exactly the requested seats held
\* by another owner, each with that owner.
C12_ConflictDetail ==
    AcquireReturned /\ ~ev.success =>
        /\ ev.locked = {}
        /\ ev.conflicts =
             {<<s, GET(store, _key_for(ev.st, s))>> :
                 s \in {q \in ev.seats :
                          GET(store, _key_for(ev.st, q)) \notin {None, ev.owner}}}

\* seat s of showtime st is named by a persisted booking row, by id or label
InBooking(st, s) ==
    \E b \in bookings :
        /\ b[1] = st
        /\ b[2] \in {IdToken(s), LabelToken(RowOf(s), NumOf(s))}
\* the step from the current state is a seat-map request returning
SeatsReturned ==
    /\ proj'.pc = "idle"
    /\ \/ \E st \in Showtimes, outcome \in Outcomes : SeatsMget(st, outcome)
       \/ \E outcome \in Outcomes : SeatsPttl(outcome)

C14_DegradedFlagged ==
    view.mode \notin {"none", "ok"} =>
        /\ \A s \in SeatsOf(view.st) :
              InBooking(view.st, s) =>
                  view.response.sections[s].status = "booked"
        /\ "degraded" \in DOMAIN view.response
        /\ view.response.degraded = TRUE

\* w is in the registry list of showtime st
RegisteredFor(reg, w, st) == w \in Members(Conns(reg, st))

C18_DisconnectSafe ==
    \A w \in Subscribers, st \in Requested :
       LET reg == disconnect(active_connections, w, st)
       IN  /\ ~RegisteredFor(active_connections, w, st)
                => reg = active_connections
           /\ ~RegisteredFor(reg, w, st)
           /\ \A i \in DOMAIN reg : reg[i].conns # <<>>
           /\ disconnect(reg, w, st) = reg

\* a handler whose subscriber a broadcast had already pruned has run the
\* disconnect of its finally block, while the registry still holds another
\* subscriber
C18_Witness ==
    /\ \E w \in Subscribers : ws[w].pc = "done" /\ ws[w].left = "absent"
    /\ active_connections # <<>>

C16_EveryChangeSurfaced ==
    \A st \in Showtimes :
       (ev.op = "tick" /\ SeatsOf(st) # {}
          /\ Conns(active_connections, st) # <<>>)
       ~> ((bcast.pc = "sending" /\ bcast.st = st)
           \/ Conns(active_connections, st) = <<>>)

\* C19: a registered subscriber whose client never sends anything and that
\* the server has pinged is eventually out of the registry.
C19_MutePruned ==
    \A w \in Subscribers :
       (ws[w].pc = "open" /\ ws[w].mute /\ ws[w].pings > 0
          /\ w \in Registered(active_connections))
       ~> (w \notin Registered(active_connections))

\* the step from the current state is taken by verify_payment
PayStep == pay' # pay

\* C21: no phantom Booked. A booking attempt that fails leaves no booking row
\* and no change in the store; a later seat map shows a seat of the failed
\* order that no booking row names as locked while the store holds its lock
\* at every read, as available when it holds none, and never as booked; and
\* a step of the booking flow that removes a lock is taken with the booking
\* rows of the order committed.
C21_NoPhantomBooked ==
    [][/\ PayStep /\ pay'.status = 500 =>
             bookings' = bookings /\ store' = store
       /\ PayStep /\ store' # store =>
             BookingRows(pay.st, pay.seats) \subseteq bookings
       /\ SeatsReturned /\ pay.status = 500 /\ view'.st = pay.st =>
             \A s \in pay.seats :
                LET seat == view'.response.sections[s]
                    held == GET(store, _key_for(pay.st, s))
                    seen == view'.seen[s]
                IN  ~InBooking(pay.st, s) =>
                       /\ seat.status # "booked"
                       /\ view'.mode = "ok" /\ seen # None /\ held = seen =>
                             seat = [status |-> "locked", locked_by |-> held]
                       /\ view'.mode = "ok" /\ seen = None /\ held = None =>
                             seat.status = "available"]_vars

\* a failed attempt for a locked seat, then a seat map showing it locked
C21_Witness ==
    /\ pay.pc = "idle" /\ pay.status = 500
    /\ view.st = pay.st /\ view.mode = "ok"
    /\ \E s \in pay.seats :
          /\ ~InBooking(pay.st, s)
          /\ view.response.sections[s].status = "locked"

\* C22: NotFound. A lock, extend, unlock or inspect request for a showtime
\* that does not exist is answered 404 with no store call attempted for it,
\* neither by get_redis nor by the lock service.
C22_NotFoundFirst ==
    ~ShowtimeExists(route.st) /\ route.op \in Ops /\ route.pc = "idle" =>
        /\ route.status = 404
        /\ route.pings = 0 /\ route.calls = 0

\* C23: InvalidRequest. A request whose seat list is present but empty is
\* rejected before any store interaction: no step of its handler reaches
\* the store through the lock service, and none creates, refreshes or
\* removes a lock.
C23_EmptyRejected ==
    [][route.pc # "idle" /\ route.seat_ids = <<>> /\ route' # route =>
          /\ route'.calls = 0
          /\ store' = store]_vars

\* the step from the current state is the response of a lock mutation route
MutationResponds ==
    /\ route.pc # "idle" /\ route'.pc = "idle"
    /\ route.op \in {"lock", "extend", "unlock"}
    /\ route'.status \in {200, 409}
\* the step from the current state is a step of a broadcast
BroadcastStep == bcast' # bcast \/ (tasks' \subseteq tasks /\ tasks' # tasks)

\* C24: broadcast is decoupled from the request path. The step in which a
\* lock, extend or unlock route responds only schedules broadcasts: it sends
\* nothing, touches no subscriber and computes no seat map, and its status
\* is 409 exactly when the lock service reported conflicts. A step of a
\* broadcast, failing sends and the prune included, changes neither a
\* response nor the store.
C24_BroadcastDecoupled ==
    [][/\ MutationResponds =>
             /\ bcast' = bcast /\ ws' = ws
             /\ active_connections' = active_connections
             /\ proj' = proj /\ view' = view
             /\ tasks \subseteq tasks'
             /\ (route'.status = 409) <=> (route'.resp.conflicts # {})
       /\ BroadcastStep => route' = route /\ store' = store]_vars

\* a lock route answered 200, and a send of its broadcast then failed while
\* the store still holds the lock it reported
C24_Witness ==
    /\ route.op = "lock" /\ route.pc = "idle" /\ route.status = 200
    /\ bcast.pc = "sending"
    /\ \E w \in Subscribers : bcast.results[w] = "exc"
    /\ \E s \in route.resp.locked :
          GET(store, _key_for(route.st, s)) = route.owner

\* the (showtime, seat) pairs an acquire call names
Named(st, S) == {<<st, s>> : s \in S}
\* what an acquire call answers: success, locked and conflicts
Answer(r) == <<r.ok, r.locked, r.conflicts>>

\* C25: disjoint acquires do not interact. On every reachable store, two
\* acquire calls naming disjoint sets of (showtime, seat) pairs get the same
\* answers and leave the same store whichever runs first, and each gets the
\* answer it would get alone: neither meets a conflict or a rollback caused
\* by the other.
C25_DisjointCommute ==
    \A o1, o2 \in Owners, st1, st2 \in Showtimes, t1, t2 \in TTLs :
       \A S1, S2 \in SUBSET Seats \ {{}} :
          Named(st1, S1) \cap Named(st2, S2) = {} =>
             LET K1 == KeysOf(st1, S1)
                 K2 == KeysOf(st2, S2)
                 a1 == MULTI_LOCK_LUA(store, K1, o1, t1)
                 b2 == MULTI_LOCK_LUA(a1.db, K2, o2, t2)
                 b1 == MULTI_LOCK_LUA(store, K2, o2, t2)
                 a2 == MULTI_LOCK_LUA(b1.db, K1, o1, t1)
             IN  /\ Answer(a1) = Answer(a2)
                 /\ Answer(b1) = Answer(b2)
                 /\ b2.db = a2.db

\* an acquire met a conflict while an acquire of the same owner for other
\* seats, or for the same seats of the other showtime, succeeds
C25_Witness ==
    /\ AcquireReturned /\ ~ev.success
    /\ \E st \in Showtimes, S \in SUBSET Seats \ {{}} :
          /\ Named(st, S) \cap Named(ev.st, ev.seats) = {}
          /\ MULTI_LOCK_LUA(store, KeysOf(st, S), ev.owner, FreshMs).ok = 1

\* the step from the current state is inspect_locks returning
InspectReturns ==
    /\ route.op = "inspect" /\ route.pc = "body"
    /\ route'.pc = "idle" /\ route'.calls = 1

RowsName(rows, st, s) ==
    \E b \in rows :
        /\ b[1] = st
        /\ b[2] \in {IdToken(s), LabelToken(RowOf(s), NumOf(s))}
\* the booking rows the seat-map request that returns in this step queried
\* when it began
StartRows == IF proj.pc = "pttl" THEN proj.rows ELSE bookings

\* C27: Booked is terminal. No step of the lock service, of expiry or of the
\* booking flow removes a booking row, and every seat map of a request that
\* began with a booking row for the seat shows the seat as booked, whatever
\* the store holds and however the lock check went.
C27_BookedTerminal ==
    [][/\ bookings \subseteq bookings'
       /\ SeatsReturned =>
             \A s \in SeatsOf(view'.st) :
                RowsName(StartRows, view'.st, s) =>
                   view'.response.sections[s] =
                      [status |-> "booked", locked_by |-> None]]_vars

\* a seat booked through a payment is shown as booked while another owner's
\* lock on it is in the store
C27_Witness ==
    /\ pay.status = 200 /\ pay.pc = "idle"
    /\ BookingRows(pay.st, pay.seats) \subseteq bookings
    /\ view.st = pay.st /\ view.mode = "ok"
    /\ \E s \in pay.seats :
          /\ view.seen[s] = "Y"
          /\ view.response.sections[s].status = "booked"

\* C28: release-all reports what it removed. A release with seat_ids None
\* returns in released exactly the seats whose entry it deleted, and no seat
\* that another owner holds when the call returns.
C28_ReleaseAllExact ==
    ev.op = "release" /\ ev.seats = {} /\ ev.client = "ok" /\ ~ev.raised =>
        /\ ev.released = {SeatOf(t[1]) : t \in ev.touched}
        /\ \A s \in ev.released :
              GET(store, _key_for(ev.st, s)) \in {None, ev.owner}

\* the step from the current state is a lock route responding
RouteResponds(op) ==
    route.op = op /\ route.pc # "idle" /\ route'.pc = "idle"
\* the broadcasts of kind the step schedules for showtime st
Scheduled(kind, st) == Task(kind, st) \in tasks' \ tasks

\* C29: events are sound against the store. A seat_released event is
\* scheduled only for a seat that no owner holds after the release, a
\* seat_locked event only for a seat the acquire left held by its owner, and
\* none for an acquire that returned conflicts.
C29_EventsSound ==
    [][/\ RouteResponds("unlock") /\ Scheduled("seat_released", route.st) =>
             \A s \in route'.resp.released :
                GET(store', _key_for(route.st, s)) = None
       /\ RouteResponds("lock") /\ Scheduled("seat_locked", route.st) =>
             /\ route'.resp.conflicts = {}
             /\ \A s \in route'.resp.locked :
                   GET(store', _key_for(route.st, s)) = route.owner]_vars

\* C30: success covers the whole batch. An acquire that returned
\* success:true with a reachable store lists every requested seat in locked,
\* and the store holds each requested seat for the caller when it returns.
C30_SuccessCoversBatch ==
    AcquireReturned /\ ev.success /\ ev.client = "ok" =>
        /\ ev.locked = ev.seats
        /\ \A s \in ev.seats : GET(store, _key_for(ev.st, s)) = ev.owner

\* ----------------------------------- redis_lock_seats without "ttl_ms"
\* payload.ttl_ms is None and is passed on as ttl_ms=None: redis.eval refuses
\* the None argument before anything is sent, "except Exception" calls
\* _acquire_seat_locks_fallback(..., None).  Its first pipeline of GETs:
\* with a conflict "int(ttl_ms)" raises in the return statement, with every
\* seat already the caller's _epoch_ms_from_now_plus(None) raises; the
\* exception leaves the route as a 500
RouteLockNoTtlGet ==
    /\ RouteFrame
    /\ UNCHANGED <<store, ev, told, tasks>>
    /\ route.pc = "body" /\ route.op = "lock"
    /\ ShowtimeExists(route.st)
    /\ LET S == Members(route.seat_ids)
           conflicts == {s \in S :
                           GET(store, _key_for(route.st, s))
                               \notin {None, route.owner}}
           locked == MineIn(store, route.st, S, route.owner)
           seats_to_lock == S \ locked
       IN  route' = IF conflicts # {} \/ seats_to_lock = {}
                    THEN [route EXCEPT !.pc = "idle", !.calls = 1,
                                       !.status = 500]
                    ELSE [route EXCEPT !.pc = "set", !.calls = 1,
                                       !.pend = seats_to_lock]

\* second pipeline of the fallback: pipe.set(key, owner, px=None, nx=True)
\* writes the key without an expiry; a seat whose SET NX lost is read again,
\* else _epoch_ms_from_now_plus(None) raises and the route answers 500
RouteLockNoTtlSet ==
    /\ RouteFrame
    /\ UNCHANGED <<tasks>>
    /\ route.pc = "set" /\ route.op = "lock"
    /\ LET K == KeysOf(route.st, route.pend)
           lost == {s \in route.pend :
                       GET(store, _key_for(route.st, s)) # None}
           db == [k \in Keys |-> IF k \in K
                                 THEN SetNx(store, k, route.owner)[k]
                                 ELSE store[k]]
       IN  /\ store' = db
           /\ told' = StillTold(told, db)
           /\ ev' = NoEv
           /\ route' = IF lost = {}
                       THEN [route EXCEPT !.pc = "idle", !.calls = 2,
                                          !.pend = {}, !.status = 500]
                       ELSE [route EXCEPT !.pc = "recheck", !.calls = 2,
                                          !.pend = lost]

\* "Check who owns it now": one redis.get per seat whose SET NX lost, then
\* the raise
RouteLockNoTtlRecheck ==
    /\ RouteFrame
    /\ UNCHANGED <<store, ev, told, tasks>>
    /\ route.pc = "recheck" /\ route.op = "lock"
    /\ LET s == CHOOSE x \in route.pend : \A y \in route.pend : x <= y
           rest == route.pend \ {s}
       IN  route' = IF rest = {}
                    THEN [route EXCEPT !.pc = "idle", !.calls = route.calls + 1,
                                       !.pend = {}, !.status = 500]
                    ELSE [route EXCEPT !.calls = route.calls + 1,
                                       !.pend = rest]

\* lock requests that leave ttl_ms out, next to buyers whose requests carry
\* a TTL and reach the script, releases and expiry
NoTtlNext ==
    \/ \E st \in {42, 99}, seat_ids \in SeatLists, o \in Owners,
          alive \in BOOLEAN :
          /\ seat_ids # <<>>
          /\ get_redis("lock", st, seat_ids, o, alive)
    \/ RouteNotFound
    \/ RouteLockNoTtlGet
    \/ RouteLockNoTtlSet
    \/ RouteLockNoTtlRecheck
    \/ \E o \in Owners : \E S \in Batches(42) :
          AcquireScript(o, 42, S, FreshMs)
    \/ \E o \in Owners : \E S \in Batches(42) : ReleaseScript(o, 42, S)
    \/ \E o \in Owners : ReleaseReport(o)
    \/ Tick

NoTtlSpec == RouteInit /\ [][NoTtlNext]_vars

\* C31: every lock entry in the store carries a finite expiry; in particular
\* a lock request without ttl_ms creates no lock that never expires
C31_EveryLockExpires ==
    \A k \in Keys : EXISTS(store, k) => PTTL(store, k) > 0

\* C32: the returned expiry is honoured. When acquire_seat_locks answers
\* success:true for a request with ttl_ms = t (expires_at = now + t), every
\* seat of locked has at least t milliseconds left in the store, the seats
\* the owner already held included.
C32_ExpiryHonoured ==
    [][\A o \in Owners, st \in Showtimes, t \in TTLs : \A S \in Batches(st) :
          AcquireScript(o, st, S, t) /\ ev'.success =>
              \A s \in ev'.locked : PTTL(store', _key_for(st, s)) >= t]_vars

\* C33: the release after a committed payment removes a seat's lock only if
\* the lock is held by the paying owner at the moment of removal: the DEL
\* pipeline of release_seat_locks_simple changes no entry of another owner.
C33_ReleaseHookScoped ==
    [][pay.pc = "release_del" /\ pay'.pc = "idle" =>
          \A k \in Keys : store'[k] # store[k] => GET(store, k) = pay.owner]_vars

\* C34: payment verification refuses expired locks. A verify_payment whose
\* lock validation answered invalid has recorded the payment as orphaned,
\* ends with the 409 conflict and creates no booking.
C34_ExpiredRefused ==
    [][PayStep /\ ~pay.valid /\ pay'.pc = "idle" =>
          /\ pay.orphan
          /\ pay'.status = 409
          /\ bookings' = bookings]_vars

\* C35: no double booking. No seat of a showtime is ever contained in two
\* committed bookings: a payment commits its booking rows only for seats
\* that no committed booking of the showtime names yet.
C35_NoDoubleBooking ==
    [][pay.pc = "book" /\ pay'.pc = "release_get" =>
          \A s \in pay.seats : ~RowsName(bookings, pay.st, s)]_vars

\* ------------------------------------------- owner strings of any shape
\* lock and unlock requests for the one seat on sale whose owner is any of
\* OwnerStrings, next to payments with any of these owners
OwnerNext ==
    \/ \E op \in {"lock", "unlock"}, o \in OwnerStrings :
          Quiet /\ get_redis(op, 42, <<101>>, o, TRUE)
    \/ RouteLock
    \/ RouteUnlock
    \/ RouteUnlockReport
    \/ \E t \in tasks : BroadcastStart(t)
    \/ Tick
    \/ \E o \in OwnerStrings, outcome \in PayOutcomes, saved \in BOOLEAN :
          VerifyValidate(o, 42, {101}, outcome, saved)
    \/ \E committed \in BOOLEAN : VerifyBook(committed)
    \/ \E outcome \in PayOutcomes : VerifyReleaseGet(outcome)
    \/ \E outcome \in PayOutcomes : VerifyReleaseDel(outcome)

OwnerSpec == PayInit /\ [][OwnerNext]_vars

\* C36: lock validation and the lock service agree on ownership. For every
\* owner string, validate_locks_for_booking answers valid without a warning
\* only if the value the store holds for every seat is exactly that string.
C36_OwnershipAgrees ==
    \A o \in OwnerStrings, st \in Showtimes : \A S \in Batches(st) :
        validate_locks_for_booking(store, st, S, o, "ok") =>
            \A s \in S : GET(store, _key_for(st, s)) = o

\* ------------------------------------------ a client without X's token
\* the owner strings client Y can put into a request: its own token, and
\* the owners the 409 of its last lock request listed in "conflicts"
Learned == {"Y"} \cup {c[2] : c \in route.resp.conflicts}

\* X locks and extends through the lock service; every route request is
\* sent by client Y, with an owner string from Learned
RivalNext ==
    \/ \E t \in TTLs : \E S \in Batches(42) : AcquireScript("X", 42, S, t)
    \/ \E t \in TTLs : \E S \in Batches(42) : ExtendScript("X", 42, S, t)
    \/ ExtendReport("X")
    \/ Tick
    \/ \E op \in {"lock", "extend", "unlock"}, seat_ids \in SeatLists,
          o \in Learned :
          /\ op \in {"lock", "extend"} => seat_ids # <<>>
          /\ Quiet
          /\ get_redis(op, 42, seat_ids, o, TRUE)
    \/ RouteLock
    \/ RouteExtend
    \/ RouteExtendReport
    \/ RouteUnlock
    \/ RouteUnlockReport
    \/ RouteUnlockAll
    \/ \E t \in tasks : BroadcastStart(t)
    \/ \E w \in Subscribers : BroadcastSend(w)
    \/ BroadcastPrune

RivalSpec == RouteInit /\ [][RivalNext]_vars

\* C37: only the holder can give up a lock. No request of a client that X
\* never gave its token to, built from the values the service returned to
\* that client, removes or extends a lock X holds.
C37_OnlyHolderReleases ==
    [][route' # route =>
          \A k \in Keys : GET(store, k) = "X" => store'[k] = store[k]]_vars

\* the handler of subscriber w has registered it and has not returned
HandlerRuns(w) == ws[w].pc \in {"hello", "open"}

\* C38 as stated: a subscriber whose handler is still running after
\* registration is in the registry of its showtime.
C38_RegistryMatchesHandlers ==
    \A w \in Subscribers :
       HandlerRuns(w) => RegisteredFor(active_connections, w, ws[w].st)

\* C38, amended: a subscriber whose handler is still running after
\* registration and whose socket still takes frames is in the registry of
\* its showtime, and a subscriber leaves the registry only when its handler
\* exits or when the send of a broadcast to it has failed.
C38_RegistryMatchesLive ==
    [][\A w \in Subscribers :
          /\ HandlerRuns(w) /\ Sendable(ws[w]) =>
                RegisteredFor(active_connections, w, ws[w].st)
          /\ RegisteredFor(active_connections, w, ws[w].st)
             /\ ~RegisteredFor(active_connections', w, ws[w].st) =>
                \/ ws'[w].pc = "done"
                \/ bcast.pc = "sending" /\ bcast.results[w] = "exc"]_vars

\* one subscriber was pruned by a broadcast while its handler still runs, and
\* another one of the same showtime, whose socket takes frames, is registered
C38_Witness ==
    \E v, w \in Subscribers :
       /\ HandlerRuns(v) /\ ~RegisteredFor(active_connections, v, ws[v].st)
       /\ HandlerRuns(w) /\ Sendable(ws[w]) /\ ws[w].st = ws[v].st
       /\ RegisteredFor(active_connections, w, ws[w].st)

\* --------------------------------------- what the subscribers are shown
\* the seats of the message of broadcast_seat_update: the sections of the
\* seat map _get_showtime_seats_impl builds from the owners its MGET read
flattened_seats(db, rows, st) ==
    LET values == [s \in Seats |-> IF s \in SeatsOf(st)
                                   THEN GET(db, _key_for(st, s)) ELSE None]
    IN  SeatMap(st, "ok", values, {s \in SeatsOf(st) : values[s] # None},
                rows).response.sections

\* POST redis-lock-seats as redis_lock_seats above, its tasks with their
\* messages: one seat_locked per locked seat, and the seat_update, whose
\* message is built when the task runs
ShownLock(o, st, S, t) ==
    /\ UNCHANGED <<layout, projvars, reqvars, active_connections, ws, bcast, shut>>
    /\ call[o].op = "idle"
    /\ LET r == MULTI_LOCK_LUA(store, KeysOf(st, S), o, t)
       IN  /\ store' = r.db
           /\ ev' = AcquireRet(o, st, S, "ok", r.ok = 1, r.locked,
                               r.conflicts, MineIn(store, st, S, o),
                               FreeIn(store, st, S), Diff(store, r.db))
           /\ told' = IF r.ok = 1 THEN Tell(told, r.db, o, st, r.locked)
                      ELSE StillTold(told, r.db)
           /\ tasks' = tasks \cup
                 (IF r.locked # {} /\ r.conflicts = {}
                  THEN {[Task("seat_locked", st) EXCEPT
                            !.msg = seat_locked(s, o)] : s \in r.locked}
                       \cup (IF Conns(active_connections, st) # <<>>
                             THEN {Task("seat_update", st)} ELSE {})
                  ELSE {})
    /\ UNCHANGED call

\* POST redis-unlock-seats by the holder of every seat it names: the script
\* releases them all, then the seat_update and one seat_released per seat
\* are scheduled
ShownUnlock(o, st, S) ==
    /\ UNCHANGED <<layout, projvars, reqvars, active_connections, ws, bcast, shut>>
    /\ MayStart(o)
    /\ LET K == KeysOf(st, S)
           r == RELEASE_LUA_SCRIPT(store, K, o)
       IN  /\ r.released = Cardinality(S)
           /\ store' = r.db
           /\ told' = StillTold(told, r.db)
           /\ ev' = ReleaseRet(o, st, S, "ok", S, {}, MineIn(store, st, S, o),
                               Hit(store, OwnedBy(store, K, o)))
           /\ tasks' = tasks \cup {Task("seat_update", st)} \cup
                          {[Task("seat_released", st) EXCEPT
                               !.msg = seat_released(s)] : s \in S}
    /\ UNCHANGED call

\* broadcast_seat_update up to its broadcast_to_showtime: the seat map is
\* read and flattened into the message; the send is a later step.  A
\* seat_update sent without this step is the seat_update_partial message
SeatUpdateRead(t) ==
    /\ UNCHANGED <<store, call, told, layout>>
    /\ UNCHANGED <<projvars, reqvars, active_connections, ws, bcast, shut>>
    /\ ev' = NoEv
    /\ Running
    /\ t \in tasks /\ t.kind = "seat_update" /\ t.msg = NoMsg
    /\ tasks' = (tasks \ {t}) \cup
                   {[t EXCEPT !.msg = flattened_seats(store, bookings, t.st)]}

\* two buyers lock and unlock seat 101 of the showtime on sale, whose
\* subscribers stay connected; the locks outlive the exchange.  A request
\* comes when the per-seat frames of the one before it have been sent; a
\* seat_update may still be on its way
ShownNext ==
    \/ /\ bcast.pc = "idle" /\ \A t \in tasks : t.kind = "seat_update"
       /\ \E o \in Owners : ShownLock(o, 42, {101}, FreshMs)
    \/ /\ bcast.pc = "idle" /\ \A t \in tasks : t.kind = "seat_update"
       /\ \E o \in Owners : ShownUnlock(o, 42, {101})
    \/ \E t \in tasks : SeatUpdateRead(t)
    \/ \E t \in tasks : BroadcastStart(t)
    \/ \E w \in Subscribers : BroadcastSend(w)
    \/ BroadcastPrune

ShownSpec == LiveInit /\ [][ShownNext]_vars

\* every task has run and no request is in flight
Settled ==
    /\ tasks = {} /\ bcast.pc = "idle"
    /\ \A o \in Owners : call[o].op = "idle"

\* C39: once the lock requests on a showtime have stopped and every
\* scheduled broadcast has been delivered, each connected subscriber holds
\* for every seat the state the seat has in the store; a seat_update read
\* before a later request is not the last word on a seat
C39_ViewsConverge ==
    Settled =>
        \A w \in Subscribers :
            RegisteredFor(active_connections, w, 42) /\ Sendable(ws[w]) =>
                \A s \in SeatsOf(42) :
                    shown[w][s] = flattened_seats(store, bookings, 42)[s]

====
